---- MODULE Spec2Model ----
(***************************************************************************)
(* Model of packages/neurosphere-python/orbital_kernel.py: the manifold    *)
(* graph (SemanticGraph, MultimodalGraph) and the orbital propagation      *)
(* kernel.                                                                 *)
(*                                                                         *)
(* Floating point values are modelled in fixed point: the integer Scale    *)
(* stands for 1.0, every product is rescaled and rounded to the nearest    *)
(* unit.  Python objects (Node, Edge) live in two heaps and the graphs     *)
(* hold references (heap indices), so that two graphs holding the same     *)
(* object see each other's writes, as in Python.                           *)
(***************************************************************************)
EXTENDS Integers, Sequences, FiniteSets, TLC

VARIABLES
    node_heap,          \* Seq of Node objects: [id, position, activation]
    edge_heap,          \* Seq of Edge objects: [source_id, target_id, weight, edge_type]
    nodes,              \* SemanticGraph.nodes: insertion-ordered dict, Seq of [id, ref]
    edges,              \* SemanticGraph.edges: Seq of references into edge_heap
    concept_nodes,      \* MultimodalGraph.concept_subgraph.nodes
    visual_nodes,       \* MultimodalGraph.visual_subgraph.nodes
    concept_edges,      \* MultimodalGraph.concept_subgraph.edges
    visual_edges,       \* MultimodalGraph.visual_subgraph.edges
    resonance_bridges,  \* MultimodalGraph.resonance_bridges
    embeddings,         \* the kernel's local N x D tensor
    cycles,             \* kernel argument
    convergence_threshold, \* kernel argument
    cycle,              \* the kernel's loop index: the cycle to run next, the cycle of
                        \* the break once stopped early, cycles once the range is used up
    energy_history,     \* the kernel's local list
    convergence_cycle,  \* the kernel's local
    metrics,            \* the dict the kernel returns
    pc,                 \* where the kernel is: idle, loop, metrics, done, error
    error,              \* the exception that left the kernel, or "none"
    dim,                \* D, the width of the embeddings
    broke,              \* whether the kernel's loop was left by its break
    edges0,             \* the Edge records of the graph as given to the kernel
    calls,              \* the log of the calls made on the graph API: each with its
                        \* arguments and what the caller could observe after it
    classifier,         \* the ThreeRingsClassifier: its three thresholds
    guardian,           \* the Guardian: blocked_count, approved_count
    db,                 \* what FinanceBee works on: the Supabase tables and Stripe
    colony              \* the Colony server and its workers: the processes and tasks,
                        \* where each worker is, what was reported

vars == <<node_heap, edge_heap, nodes, edges, concept_nodes, visual_nodes,
          concept_edges, visual_edges, resonance_bridges, embeddings, cycles,
          convergence_threshold, cycle, energy_history, convergence_cycle,
          metrics, pc, error, dim, broke, edges0, calls, classifier, guardian, db,
          colony>>

graphVars == <<node_heap, edge_heap, nodes, edges>>
mmVars == <<concept_nodes, visual_nodes, concept_edges, visual_edges, resonance_bridges>>
kernelVars == <<embeddings, cycles, convergence_threshold, cycle, energy_history,
                convergence_cycle, metrics, pc, error, dim, broke, edges0>>
colonyVars == <<classifier, guardian, db, colony>>

----------------------------------------------------------------------------
(* Fixed-point arithmetic *)

\* 1.0
Scale == 1000

\* a / b rounded to the nearest unit (b > 0)
RDiv(a, b) == (2 * a + b) \div (2 * b)

\* the sequence f as a tuple: its elements computed once
AsTuple(f) == f \o <<>>

Max2(a, b) == IF a >= b THEN a ELSE b
Min2(a, b) == IF a <= b THEN a ELSE b

RECURSIVE SumSeq(_)
SumSeq(s) == IF s = <<>> THEN 0 ELSE Head(s) + SumSeq(Tail(s))

RECURSIVE FloorSqrtIn(_, _, _)
FloorSqrtIn(x, lo, hi) ==
    IF lo >= hi THEN lo
    ELSE LET mid == (lo + hi + 1) \div 2
         IN IF mid * mid <= x THEN FloorSqrtIn(x, mid, hi)
                              ELSE FloorSqrtIn(x, lo, mid - 1)

\* sqrt(x) rounded to the nearest unit
ISqrt(x) ==
    LET f == FloorSqrtIn(x, 0, 40000)
    IN IF x - f * f > f THEN f + 1 ELSE f

Dot(a, b) == SumSeq(AsTuple([k \in 1..Len(a) |-> a[k] * b[k]]))

\* torch.norm(v, p=2), in units of 1/Scale
Norm(v) == ISqrt(Dot(v, v))

\* F.normalize(v, p=2, dim=-1): v / max(||v||, eps); eps = 1e-12 is below one unit,
\* and the zero vector divided by eps is the zero vector
Normalize(v) ==
    LET n == Norm(v)
    IN IF n = 0 THEN v ELSE AsTuple([k \in 1..Len(v) |-> RDiv(v[k] * Scale, n)])

\* F.cosine_similarity(a, b): the dot product of the two normalized vectors, the
\* cosine of an angle: the rounding of the fixed-point normalizations is not let
\* push it past 1.0 or below -1.0
cosine_similarity(a, b) ==
    Max2(0 - Scale, Min2(Scale, RDiv(Dot(Normalize(a), Normalize(b)), Scale)))

----------------------------------------------------------------------------
(* SemanticGraph *)

Ids(dict) == {dict[i].id : i \in 1..Len(dict)}

\* position of key id in the dict, 0 when absent
IndexOf(dict, id) ==
    IF id \in Ids(dict) THEN CHOOSE i \in 1..Len(dict) : dict[i].id = id ELSE 0

\* self.nodes[node.id] = node
add_node(dict, id, ref) ==
    IF id \in Ids(dict)
    THEN [dict EXCEPT ![IndexOf(dict, id)] = [id |-> id, ref |-> ref]]
    ELSE Append(dict, [id |-> id, ref |-> ref])

Edge(s, t, w, ty) == [source_id |-> s, target_id |-> t, weight |-> w, edge_type |-> ty]

\* the Edge records a list of references stands for
Deref(heap, refs) == AsTuple([i \in 1..Len(refs) |-> heap[refs[i]]])

RECURSIVE SelectRefs(_, _, _)
SelectRefs(heap, refs, types) ==
    IF refs = <<>> THEN <<>>
    ELSE IF heap[Head(refs)].edge_type \in types
         THEN <<Head(refs)>> \o SelectRefs(heap, Tail(refs), types)
         ELSE SelectRefs(heap, Tail(refs), types)

\* get_neighbors(node_id): the ids of the neighbours, one per incident edge,
\* in edge order; an edge whose other end is no node of the graph is skipped
RECURSIVE get_neighbors(_, _, _)
get_neighbors(dict, es, node_id) ==
    IF es = <<>> THEN <<>>
    ELSE LET e == Head(es)
             rest == get_neighbors(dict, Tail(es), node_id)
         IN IF e.source_id = node_id
            THEN IF e.target_id \in Ids(dict) THEN <<e.target_id>> \o rest ELSE rest
            ELSE IF e.target_id = node_id
                 THEN IF e.source_id \in Ids(dict) THEN <<e.source_id>> \o rest ELSE rest
                 ELSE rest

Dangling(dict, es) ==
    \E i \in 1..Len(es) :
        es[i].source_id \notin Ids(dict) \/ es[i].target_id \notin Ids(dict)

----------------------------------------------------------------------------
(* orbital_propagation_kernel and its helpers *)

\* eta = 0.06
eta == 60

\* 1.0 / (1.0 + math.exp(cycle - 12)) for cycle = 0, 1, 2, ...
TemperatureTable ==
    <<1000, 1000, 1000, 1000, 1000, 999, 998, 993, 982, 953, 881, 731,
      500, 269, 119, 47, 18, 7, 2, 1, 0, 0, 0, 0>>

Temperature(c) ==
    IF c + 1 <= Len(TemperatureTable) THEN TemperatureTable[c + 1] ELSE 0

\* threshold = 0.6 + (0.3 * (1 - temperature))
Threshold(c) == 600 + RDiv(300 * (Scale - Temperature(c)), Scale)

\* embeddings @ embeddings.T
Similarities(E) ==
    AsTuple([i \in 1..Len(E) |->
                AsTuple([j \in 1..Len(E) |-> RDiv(Dot(E[i], E[j]), Scale)])])

\* similarities @ embeddings
Gravity(S, E, D) ==
    AsTuple([i \in 1..Len(E) |->
        AsTuple([k \in 1..D |->
            RDiv(SumSeq(AsTuple([j \in 1..Len(E) |-> S[i][j] * E[j][k]])), Scale)])])

\* torch.cross(a, b, dim=-1) of two vectors of width 3
Cross3(a, b) ==
    <<RDiv(a[2] * b[3] - a[3] * b[2], Scale),
      RDiv(a[3] * b[1] - a[1] * b[3], Scale),
      RDiv(a[1] * b[2] - a[2] * b[1], Scale)>>

CrossRaisesWithoutPairs(E, D) == D # 3

\* torch.cross is called for every i != j, and raises unless the width is 3
CrossRaises(E, D) == Len(E) >= 2 /\ D # 3

\* velocity[i] = (sum over j != i of cross(E[i], G[j]) * S[i, j]) / N
Velocity(E, S, G, D) ==
    AsTuple([i \in 1..Len(E) |->
        AsTuple([k \in 1..D |->
            RDiv(SumSeq(AsTuple([j \in 1..Len(E) |->
                            IF j = i THEN 0
                            ELSE RDiv(Cross3(E[i], G[j])[k] * S[i][j], Scale)])),
                 Len(E))])])

\* embeddings = F.normalize(embeddings + eta * (gravity + velocity))
UpdatePositions(E, G, V, D) ==
    AsTuple([i \in 1..Len(E) |->
        Normalize(AsTuple([k \in 1..D |->
            E[i][k] + RDiv(eta * (G[i][k] + V[i][k]), Scale)]))])

RECURSIVE PairsFrom(_, _, _)
PairsFrom(i, j, N) ==
    IF i > N THEN <<>>
    ELSE IF j > N THEN PairsFrom(i + 1, i + 2, N)
         ELSE <<<<i, j>>>> \o PairsFrom(i, j + 1, N)

AtLeastThreshold(sim, threshold) == sim >= threshold

\* the test of _dynamic_rewire: sim > threshold
AboveThreshold(sim, threshold) == sim > threshold

\* the semantic edges _dynamic_rewire adds, in the order it adds them
NewSemanticEdges(dict, S, threshold) ==
    LET Keep(p) == AboveThreshold(S[p[1]][p[2]], threshold)
        kept == SelectSeq(PairsFrom(1, 2, Len(dict)), Keep)
    IN AsTuple([n \in 1..Len(kept) |->
            Edge(dict[kept[n][1]].id, dict[kept[n][2]].id,
                 S[kept[n][1]][kept[n][2]], "semantic")])

KeptAll(heap, refs) == refs

KeptStructuralOnly(heap, refs) == SelectRefs(heap, refs, {"structural"})

\* the edge types _dynamic_rewire keeps: e.edge_type != 'semantic'
KeptByDynamicRewire(heap, refs) ==
    SelectRefs(heap, refs, {heap[refs[i]].edge_type : i \in 1..Len(refs)} \ {"semantic"})

\* _dynamic_rewire(graph, similarities, threshold): the heap and the edge list after it
dynamic_rewire(dict, heap, refs, S, threshold) ==
    LET kept == KeptByDynamicRewire(heap, refs)
        new == NewSemanticEdges(dict, S, threshold)
    IN [heap |-> heap \o new,
        edges |-> kept \o AsTuple([n \in 1..Len(new) |-> Len(heap) + n])]

\* the edge types OrbitalEmbedder._rewire_graph keeps, line 258-261:
\* e.edge_type in ['structural', 'resonance']
KeptByRewireGraph(heap, refs) == SelectRefs(heap, refs, {"structural", "resonance"})

\* OrbitalEmbedder._rewire_graph(graph, similarities, threshold), lines 246-277: the
\* heap and the edge list after it
rewire_graph(dict, heap, refs, S, threshold) ==
    LET kept == KeptByRewireGraph(heap, refs)
        new == NewSemanticEdges(dict, S, threshold)
    IN [heap |-> heap \o new,
        edges |-> kept \o AsTuple([n \in 1..Len(new) |-> Len(heap) + n])]

EnergyTermSignFlipped(e, dict, E) ==
    LET distance == cosine_similarity(E[IndexOf(dict, e.source_id)],
                                      E[IndexOf(dict, e.target_id)]) - Scale
    IN RDiv(e.weight * distance, Scale)

\* one term of the energy: edge.weight * (1 - cosine_similarity)
EnergyTerm(e, dict, E) ==
    LET distance == Scale - cosine_similarity(E[IndexOf(dict, e.source_id)],
                                              E[IndexOf(dict, e.target_id)])
    IN RDiv(e.weight * distance, Scale)

\* _compute_system_energy: next(...) raises StopIteration on an edge end that is no node
compute_system_energy(dict, es, E) ==
    IF Dangling(dict, es)
    THEN [raised |-> TRUE, value |-> 0]
    ELSE [raised |-> FALSE,
          value |-> SumSeq(AsTuple([n \in 1..Len(es) |-> EnergyTerm(es[n], dict, E)]))]

\* node.activation *= 0.95 for every node of the graph
DecayActivation(heap, dict) ==
    AsTuple([r \in 1..Len(heap) |->
        IF \E i \in 1..Len(dict) : dict[i].ref = r
        THEN [heap[r] EXCEPT !.activation = RDiv(@ * 950, Scale)]
        ELSE heap[r]])

SeqMax(s) == CHOOSE x \in {s[i] : i \in 1..Len(s)} : \A i \in 1..Len(s) : s[i] <= x
SeqMin(s) == CHOOSE x \in {s[i] : i \in 1..Len(s)} : \A i \in 1..Len(s) : s[i] >= x

\* max(recent) - min(recent) over the last 3 energies
EnergyDelta(h) ==
    LET recent == SubSeq(h, Len(h) - 2, Len(h))
    IN SeqMax(recent) - SeqMin(recent)

ConvergenceDetectedFromCycle5(c, h, thr) ==
    c >= 5 /\ Len(h) >= 3 /\ EnergyDelta(h) < thr

ConvergenceDetectedAtAnyCycle(c, h, thr) ==
    Len(h) >= 3 /\ EnergyDelta(h) < thr

\* cycle > 5 and len(energy_history) >= 3 and energy_delta < convergence_threshold
ConvergenceDetected(c, h, thr) ==
    c > 5 /\ Len(h) >= 3 /\ EnergyDelta(h) < thr

\* _compute_pairwise_uplift: the mean of the off-diagonal similarities; the mean of
\* an empty selection is nan
compute_pairwise_uplift(E) ==
    LET N == Len(E)
        S == Similarities(E)
    IN IF N < 2 THEN [nan |-> TRUE, value |-> 0]
       ELSE [nan |-> FALSE,
             value |-> RDiv(SumSeq(AsTuple([i \in 1..N |->
                                SumSeq(AsTuple([j \in 1..N |->
                                    IF i = j THEN 0 ELSE S[i][j]]))])),
                            N * (N - 1))]

Connected(es, a, b) ==
    \E n \in 1..Len(es) :
        \/ es[n].source_id = a /\ es[n].target_id = b
        \/ es[n].source_id = b /\ es[n].target_id = a

\* the local clustering of one node: triangles / (k * (k - 1) / 2), 0 when k < 2
LocalClustering(dict, es, id) ==
    LET nb == get_neighbors(dict, es, id)
        k == Len(nb)
        triangles == Cardinality({p \in (1..k) \X (1..k) :
                                    p[1] < p[2] /\ Connected(es, nb[p[1]], nb[p[2]])})
    IN IF k < 2 THEN 0 ELSE RDiv(2 * triangles * Scale, k * (k - 1))

\* the mean taken over the nodes that have at least 2 neighbours only
compute_clustering_coefficient_over_counted(dict, es) ==
    LET counted == Cardinality({i \in 1..Len(dict) :
                                   Len(get_neighbors(dict, es, dict[i].id)) >= 2})
    IN IF Len(dict) < 3 \/ counted = 0 THEN 0
       ELSE RDiv(SumSeq(AsTuple([i \in 1..Len(dict) |->
                                   LocalClustering(dict, es, dict[i].id)])),
                 counted)

\* _compute_clustering_coefficient
compute_clustering_coefficient(dict, es) ==
    IF Len(dict) < 3 THEN 0
    ELSE RDiv(SumSeq(AsTuple([i \in 1..Len(dict) |->
                                LocalClustering(dict, es, dict[i].id)])),
              Len(dict))

\* 'final_energy': energy_history[-1] if energy_history else 0.0
FinalEnergy(h) == IF h = <<>> THEN 0 ELSE h[Len(h)]

NoMetrics ==
    [convergence_cycle |-> 0, final_energy |-> 0, energy_history |-> <<>>,
     pairwise_uplift |-> [nan |-> FALSE, value |-> 0],
     clustering_coefficient |-> 0, converged |-> FALSE]

\* one pass of the loop body, lines 528-615
KernelCycle ==
    /\ pc = "loop"
    /\ LET threshold == Threshold(cycle)
           S == Similarities(embeddings)
           G == Gravity(S, embeddings, dim)
       IN IF CrossRaises(embeddings, dim)
          THEN /\ pc' = "error"
               /\ error' = "RuntimeError"
               /\ UNCHANGED <<node_heap, edge_heap, edges, embeddings, cycle,
                              energy_history, convergence_cycle, broke>>
          ELSE LET V == Velocity(embeddings, S, G, dim)
                   E2 == UpdatePositions(embeddings, G, V, dim)
                   rw == dynamic_rewire(nodes, edge_heap, edges, Similarities(E2), threshold)
                   en == compute_system_energy(nodes, Deref(rw.heap, rw.edges), E2)
                   h2 == Append(energy_history, en.value)
               IN /\ embeddings' = E2
                  /\ edge_heap' = rw.heap
                  /\ edges' = rw.edges
                  /\ node_heap' = DecayActivation(node_heap, nodes)
                  /\ IF en.raised
                     THEN /\ pc' = "error"
                          /\ error' = "StopIteration"
                          /\ UNCHANGED <<cycle, energy_history, convergence_cycle, broke>>
                     ELSE /\ energy_history' = h2
                          /\ error' = error
                          /\ IF ConvergenceDetected(cycle, h2, convergence_threshold)
                             THEN /\ convergence_cycle' = cycle
                                  /\ broke' = TRUE
                                  /\ cycle' = cycle
                                  /\ pc' = "metrics"
                             ELSE /\ convergence_cycle' = convergence_cycle
                                  /\ broke' = broke
                                  /\ cycle' = cycle + 1
                                  /\ pc' = IF cycle + 1 < cycles THEN "loop" ELSE "metrics"
    /\ UNCHANGED <<nodes, mmVars, cycles, convergence_threshold, metrics, dim, edges0,
                   calls, colonyVars>>

\* the metrics and the return, lines 617-631
KernelReturn ==
    /\ pc = "metrics"
    /\ metrics' =
         [convergence_cycle |-> convergence_cycle,
          final_energy |-> FinalEnergy(energy_history),
          energy_history |-> energy_history,
          pairwise_uplift |-> compute_pairwise_uplift(embeddings),
          clustering_coefficient |->
              compute_clustering_coefficient(nodes, Deref(edge_heap, edges)),
          converged |-> convergence_cycle < cycles]
    /\ pc' = "done"
    /\ UNCHANGED <<graphVars, mmVars, embeddings, cycles, convergence_threshold, cycle,
                   energy_history, convergence_cycle, error, dim, broke, edges0, calls,
                   colonyVars>>

----------------------------------------------------------------------------
(* The kernel called on a graph: the inputs *)

MaxNodes == 3
MaxCycles == 8

NodeIds == <<"n1", "n2", "n3", "n4", "n5", "n6">>

\* embedding widths: the kernel takes any (N, D) tensor
Dims == {2, 3}

\* rows of unit norm
UnitVectors(D) ==
    IF D = 3 THEN <<(<<1000, 0, 0>>), (<<600, 800, 0>>), (<<0, 600, 800>>)>>
    ELSE <<(<<1000, 0>>), (<<600, 800>>), (<<0, 1000>>)>>

\* the position matrices given to the kernel: each row one of the unit vectors (the
\* kernel treats the rows alike, so the rows are drawn in non-decreasing order)
PositionMatrices(N, D) ==
    {AsTuple([i \in 1..N |-> UnitVectors(D)[ix[i]]]) :
        ix \in {f \in [1..N -> 1..3] : \A i \in 1..N : i > 1 => f[i - 1] <= f[i]}}

\* the cycles argument: negative, none, one, and enough for an early stop
CycleCounts == {-1, 0, 1, MaxCycles}

ConvergenceThresholds == {0, 1, 50}

Activations == {0, 1000}

\* Node.activation of the nodes of a graph given to the kernel directly
SeededActivation == Scale

AllPairs(N, w, ty) ==
    LET ps == PairsFrom(1, 2, N)
    IN AsTuple([n \in 1..Len(ps) |-> Edge(NodeIds[ps[n][1]], NodeIds[ps[n][2]], w, ty)])

\* the edge lists of the graphs given to the kernel: none, the all-pairs 0.5 semantic
\* topology of _build_text_graph, structural and resonance edges, an edge of negative
\* weight, and edges one end of which is no node
EdgeLists(N) ==
    { <<>>,
      AllPairs(N, 500, "semantic"),
      AllPairs(N, 1000, "structural"),
      AllPairs(N, 850, "resonance") \o AllPairs(N, 500, "semantic"),
      AllPairs(N, -500, "structural"),
      <<Edge("n1", "ghost", 1000, "structural")>>,
      AllPairs(N, 500, "semantic") \o <<Edge("ghost", "n1", 500, "semantic")>> }

InitMM ==
    /\ concept_nodes = <<>>
    /\ visual_nodes = <<>>
    /\ concept_edges = <<>>
    /\ visual_edges = <<>>
    /\ resonance_bridges = <<>>

\* no classifier, Guardian or FinanceBee has been made
ColonyIdle ==
    /\ classifier = "none"
    /\ guardian = "none"
    /\ db = "none"
    /\ colony = "none"

\* lines 524-526: the kernel has been called
KernelCalled(c, thr) ==
    /\ cycles = c
    /\ convergence_threshold = thr
    /\ cycle = 0
    /\ energy_history = <<>>
    /\ convergence_cycle = c
    /\ metrics = NoMetrics
    /\ pc = IF c > 0 THEN "loop" ELSE "metrics"
    /\ error = "none"
    /\ broke = FALSE

\* no kernel call has been made
KernelIdle(D) ==
    /\ dim = D
    /\ embeddings = <<>>
    /\ edges0 = <<>>
    /\ cycles = 0
    /\ convergence_threshold = 0
    /\ cycle = 0
    /\ energy_history = <<>>
    /\ convergence_cycle = 0
    /\ metrics = NoMetrics
    /\ pc = "idle"
    /\ error = "none"
    /\ broke = FALSE

InitKernel ==
    \E D \in Dims, N \in 0..MaxNodes, c \in CycleCounts, thr \in ConvergenceThresholds :
      \E pos \in PositionMatrices(N, D), es \in EdgeLists(N) :
        /\ dim = D
        /\ node_heap = [i \in 1..N |-> [id |-> NodeIds[i], position |-> pos[i],
                                        activation |-> SeededActivation]]
        /\ nodes = [i \in 1..N |-> [id |-> NodeIds[i], ref |-> i]]
        /\ edge_heap = es
        /\ edges = [i \in 1..Len(es) |-> i]
        /\ embeddings = [i \in 1..N |-> pos[i]]
        /\ edges0 = es
        /\ KernelCalled(c, thr)
        /\ InitMM
        /\ ColonyIdle
        /\ calls = <<>>

NextKernel == KernelCycle \/ KernelReturn

SpecKernel == InitKernel /\ [][NextKernel]_vars

----------------------------------------------------------------------------
(* Properties of the kernel, checked under SpecKernel *)

\* the tolerance of the unit-norm check, in units of 1/Scale
UnitTolerance == 1

UnitNorm(v) ==
    /\ Dot(v, v) >= (Scale - UnitTolerance) * (Scale - UnitTolerance)
    /\ Dot(v, v) <= (Scale + UnitTolerance) * (Scale + UnitTolerance)

NonNegativeWeights(es) == \A i \in 1..Len(es) : es[i].weight >= 0

\* C1: for every input (any node count, any embedding width, unit rows, no edge
\* with a missing end) every cycle completes and leaves every row of the position
\* matrix with norm 1, and so does the matrix at completion.
C1_UnitSphereEveryCycle ==
    ~Dangling(nodes, edges0) =>
        /\ pc # "error"
        /\ \A i \in 1..Len(embeddings) : UnitNorm(embeddings[i])

\* C1, what the code does keep: whenever a cycle completes the rows have norm 1
C1_UnitSphereWhenCompleted ==
    \A i \in 1..Len(embeddings) : UnitNorm(embeddings[i])

\* C2: the convergence report matches the run. stopped early at cycle c: c > 5, the
\* range of the last 3 energies is below the threshold, convergence_cycle = c and
\* converged; no early stop: no recorded cycle after cycle 5 met the test,
\* convergence_cycle = cycles and not converged; always converged ==
\* (convergence_cycle < cycles).
C2_ConvergenceReport ==
    pc = "done" =>
        /\ metrics.converged = (metrics.convergence_cycle < cycles)
        /\ broke =>
            /\ metrics.convergence_cycle = cycle
            /\ cycle > 5
            /\ Len(energy_history) = cycle + 1
            /\ EnergyDelta(energy_history) < convergence_threshold
            /\ metrics.converged
        /\ ~broke =>
            /\ metrics.convergence_cycle = cycles
            /\ ~metrics.converged
            /\ Len(energy_history) = Max2(cycles, 0)
        /\ \A k \in 6..(Len(energy_history) - 2) :
               ~(EnergyDelta(SubSeq(energy_history, 1, k + 1)) < convergence_threshold)

C2_StoppedEarlyReported ==
    pc = "done" /\ broke /\ metrics.final_energy > 0

\* C3: a graph with an edge whose source or target is no node of the graph makes the
\* kernel fail with an explicit dangling-edge error: it does not return, and it does
\* not fail with another error.
C3_DanglingEdgeFailsExplicitly ==
    (Dangling(nodes, edges0) /\ pc \in {"done", "error"}) =>
        (pc = "error" /\ error = "DanglingEdgeError")

\* C5: on a graph with 0 nodes (and no edge) the kernel returns without error a
\* matrix of 0 rows, final_energy = 0 and clustering_coefficient = 0.
C5_EmptyGraph ==
    (Len(nodes) = 0 /\ edges0 = <<>>) =>
        /\ pc # "error"
        /\ error = "none"
        /\ pc = "done" =>
            /\ embeddings = <<>>
            /\ metrics.final_energy = 0
            /\ metrics.clustering_coefficient = 0

C5_EmptyGraphReturned ==
    Len(nodes) = 0 /\ edges0 = <<>> /\ pc = "done" /\ cycles > 1 /\ dim # 3

\* C6: when every edge weight of the graph given is non-negative, every recorded
\* energy and final_energy are >= 0 (and so is every weight of the edges the kernel
\* adds).
C6_EnergyNonNegative ==
    NonNegativeWeights(edges0) =>
        /\ \A i \in 1..Len(energy_history) : energy_history[i] >= 0
        /\ NonNegativeWeights(Deref(edge_heap, edges))
        /\ pc = "done" =>
            /\ metrics.final_energy >= 0
            /\ \A i \in 1..Len(metrics.energy_history) : metrics.energy_history[i] >= 0

C6_PositiveEnergyReturned ==
    /\ NonNegativeWeights(edges0)
    /\ pc = "done"
    /\ metrics.final_energy > 0
    /\ Len(metrics.energy_history) > 1

\* the graph of exactly 3 nodes joined by a triangle of structural edges of weight 1.0
TriangleGiven == Len(nodes) = 3 /\ edges0 = AllPairs(3, Scale, "structural")

\* C13: for the graph of exactly 3 nodes mutually connected by a triangle of structural
\* edges of weight 1.0, the clustering_coefficient the kernel reports is 1.0, whatever
\* the positions of the nodes.
C13_TriangleClusteringIsOne ==
    (pc = "done" /\ TriangleGiven) => metrics.clustering_coefficient = Scale

----------------------------------------------------------------------------
(* _dynamic_rewire called on its own: a graph, a similarity matrix, a threshold *)

SimValues == {600, 601, 900}
RewireThresholds == {600, 900}

UnorderedPairs(N) == {p \in (1..N) \X (1..N) : p[1] < p[2]}

\* symmetric matrices with 1.0 on the diagonal
SimilarityMatrices(N) ==
    {AsTuple([i \in 1..N |->
        AsTuple([j \in 1..N |->
            IF i = j THEN Scale ELSE v[<<Min2(i, j), Max2(i, j)>>]])]) :
        v \in [UnorderedPairs(N) -> SimValues]}

\* the graphs given to a rewiring step: those given to the kernel, and one holding
\* edges of a type that is none of structural, semantic, resonance (add_edge takes
\* any string)
RewireEdgeLists(N) ==
    EdgeLists(N) \cup {AllPairs(N, 700, "temporal") \o AllPairs(N, 500, "semantic")}

\* the two implementations of the rewiring step
RewireOps == {"dynamic_rewire", "rewire_graph"}

InitRewire ==
    \E N \in 0..MaxNodes, t \in RewireThresholds, op \in RewireOps :
      \E es \in RewireEdgeLists(N), S \in SimilarityMatrices(N) :
        /\ node_heap = [i \in 1..N |-> [id |-> NodeIds[i], position |-> UnitVectors(3)[1],
                                        activation |-> SeededActivation]]
        /\ nodes = [i \in 1..N |-> [id |-> NodeIds[i], ref |-> i]]
        /\ edge_heap = es
        /\ edges = [i \in 1..Len(es) |-> i]
        /\ KernelIdle(3)
        /\ InitMM
        /\ ColonyIdle
        /\ calls = <<[op |-> op, similarities |-> S, threshold |-> t,
                      given |-> es, returned |-> FALSE]>>

\* _dynamic_rewire(graph, similarities, threshold), lines 634-656
DynamicRewire ==
    /\ pc = "idle"
    /\ Len(calls) = 1
    /\ calls[1].op = "dynamic_rewire"
    /\ ~calls[1].returned
    /\ LET rw == dynamic_rewire(nodes, edge_heap, edges, calls[1].similarities,
                                calls[1].threshold)
       IN /\ edge_heap' = rw.heap
          /\ edges' = rw.edges
    /\ calls' = [calls EXCEPT ![1].returned = TRUE]
    /\ UNCHANGED <<node_heap, nodes, mmVars, kernelVars, colonyVars>>

\* OrbitalEmbedder._rewire_graph(graph, similarities, threshold), lines 246-277
RewireGraph ==
    /\ pc = "idle"
    /\ Len(calls) = 1
    /\ calls[1].op = "rewire_graph"
    /\ ~calls[1].returned
    /\ LET rw == rewire_graph(nodes, edge_heap, edges, calls[1].similarities,
                               calls[1].threshold)
       IN /\ edge_heap' = rw.heap
          /\ edges' = rw.edges
    /\ calls' = [calls EXCEPT ![1].returned = TRUE]
    /\ UNCHANGED <<node_heap, nodes, mmVars, kernelVars, colonyVars>>

NextRewire == DynamicRewire \/ RewireGraph

SpecRewire == InitRewire /\ [][NextRewire]_vars

SemanticBetween(es, a, b) ==
    {n \in 1..Len(es) :
        /\ es[n].edge_type = "semantic"
        /\ \/ es[n].source_id = a /\ es[n].target_id = b
           \/ es[n].source_id = b /\ es[n].target_id = a}

Rewired == Len(calls) = 1 /\ calls[1].op = "dynamic_rewire" /\ calls[1].returned

\* C7: after a rewiring step with threshold t, two distinct nodes are joined by a
\* semantic edge if and only if their similarity is strictly greater than t: none
\* at similarity = t, exactly one, of weight the similarity, above t.
C7_StrictThreshold ==
    Rewired =>
        LET es == Deref(edge_heap, edges)
        IN \A i, j \in 1..Len(nodes) :
            i < j =>
                LET between == SemanticBetween(es, nodes[i].id, nodes[j].id)
                    sim == calls[1].similarities[i][j]
                IN IF sim > calls[1].threshold
                   THEN /\ Cardinality(between) = 1
                        /\ \A n \in between : es[n].weight = sim
                   ELSE between = {}

C7_AtAndJustAbove ==
    /\ Rewired
    /\ \E i, j \in 1..Len(nodes) :
        /\ i < j
        /\ calls[1].similarities[i][j] = calls[1].threshold
        /\ SemanticBetween(Deref(edge_heap, edges), nodes[i].id, nodes[j].id) = {}
    /\ \E i, j \in 1..Len(nodes) :
        /\ i < j
        /\ calls[1].similarities[i][j] = calls[1].threshold + 1
        /\ SemanticBetween(Deref(edge_heap, edges), nodes[i].id, nodes[j].id) # {}

----------------------------------------------------------------------------
(* SemanticGraph built by its callers: add_node, add_edge *)

MaxCalls == 3

GraphIds == {"n1", "n2"}

InitGraph ==
    /\ node_heap = <<>>
    /\ nodes = <<>>
    /\ edge_heap = <<>>
    /\ edges = <<>>
    /\ KernelIdle(3)
    /\ InitMM
    /\ ColonyIdle
    /\ calls = <<>>

\* graph.add_node(Node(id, ...)), lines 57-59: the caller makes a new Node
AddNode ==
    \E id \in GraphIds, a \in Activations :
        /\ pc = "idle"
        /\ Len(calls) < MaxCalls
        /\ node_heap' = Append(node_heap, [id |-> id, position |-> UnitVectors(dim)[1],
                                           activation |-> a])
        /\ nodes' = add_node(nodes, id, Len(node_heap) + 1)
        /\ calls' = Append(calls, [op |-> "add_node", id |-> id,
                                   present |-> id \in Ids(nodes), raised |-> FALSE])
        /\ UNCHANGED <<edge_heap, edges, mmVars, kernelVars, colonyVars>>

\* graph.add_edge(source_id, target_id, weight, edge_type), lines 61-63
AddEdge ==
    \E s \in GraphIds \cup {"ghost"}, t \in GraphIds, ty \in {"structural", "semantic"} :
        /\ pc = "idle"
        /\ Len(calls) < MaxCalls
        /\ edge_heap' = Append(edge_heap, Edge(s, t, 500, ty))
        /\ edges' = Append(edges, Len(edge_heap) + 1)
        /\ calls' = Append(calls, [op |-> "add_edge", id |-> s, present |-> FALSE,
                                   raised |-> FALSE])
        /\ UNCHANGED <<node_heap, nodes, mmVars, kernelVars, colonyVars>>

NextGraph == AddNode \/ AddEdge

SpecGraph == InitGraph /\ [][NextGraph]_vars

\* C4: add_node(node) fails when a node of the same id is in the graph and leaves the
\* graph unchanged: every id keeps the first node inserted under it, and no call on
\* an id already present returns normally.
C4_AddNodeKeepsFirst ==
    /\ \A i \in 1..Len(nodes) :
        ~\E r \in 1..Len(node_heap) : node_heap[r].id = nodes[i].id /\ r < nodes[i].ref
    /\ \A k \in 1..Len(calls) :
        (calls[k].op = "add_node" /\ calls[k].present) => calls[k].raised

----------------------------------------------------------------------------
(* MultimodalGraph: the two subgraphs, the resonance bridges, the merge and the
   propagation run on the merged graph *)

\* amplify_visual_cortex(factor=2.0) and other factors
Factors == {2000, 500}

\* the cycles of the propagation run on the merged graph
PropagateCycles == {0, 2}

\* convergence_threshold = 0.001
DefaultConvergenceThreshold == 1

ConceptIds == <<"concept:moody", "concept:urban">>
VisualIds == <<"visual:lighting:golden hour">>

\* RESONANCE_RINGS: 0.85, 0.80
ResonanceWeights == <<850, 800>>

AmplifiedWeightAdded(w, factor) == w + factor

\* bridge.weight *= factor
AmplifiedWeight(w, factor) == RDiv(w * factor, Scale)

\* amplify_visual_cortex(factor): the Edge heap after it
amplify_visual_cortex(heap, bridges, factor) ==
    AsTuple([r \in 1..Len(heap) |->
        IF \E i \in 1..Len(bridges) : bridges[i] = r
        THEN [heap[r] EXCEPT !.weight = AmplifiedWeight(@, factor)]
        ELSE heap[r]])

mute_all_but_last(heap, bridges) ==
    AsTuple([r \in 1..Len(heap) |->
        IF \E i \in 1..(Len(bridges) - 1) : bridges[i] = r
        THEN [heap[r] EXCEPT !.weight = 0]
        ELSE heap[r]])

\* mute_visual_cortex(): the Edge heap after it
mute_visual_cortex(heap, bridges) ==
    AsTuple([r \in 1..Len(heap) |->
        IF \E i \in 1..Len(bridges) : bridges[i] = r
        THEN [heap[r] EXCEPT !.weight = 0]
        ELSE heap[r]])

RECURSIVE AddAll(_, _)
AddAll(dict, items) ==
    IF items = <<>> THEN dict
    ELSE AddAll(add_node(dict, Head(items).id, Head(items).ref), Tail(items))

\* merge_for_propagation(): the merged graph holds the very Node and Edge objects
\* of the subgraphs and the bridges
merge_for_propagation(cn, vn, ce, ve, rb) ==
    [nodes |-> AddAll(AddAll(<<>>, cn), vn), edges |-> ce \o ve \o rb]

\* what a caller reads from the bridges
BridgeWeights ==
    AsTuple([i \in 1..Len(resonance_bridges) |-> edge_heap[resonance_bridges[i]].weight])

\* the node sets, the subgraph edges, and the bridges without their weights
MMFrame ==
    [concept_nodes |-> concept_nodes,
     visual_nodes |-> visual_nodes,
     concept_edges |-> Deref(edge_heap, concept_edges),
     visual_edges |-> Deref(edge_heap, visual_edges),
     bridges |-> AsTuple([i \in 1..Len(resonance_bridges) |->
                    [source_id |-> edge_heap[resonance_bridges[i]].source_id,
                     target_id |-> edge_heap[resonance_bridges[i]].target_id,
                     edge_type |-> edge_heap[resonance_bridges[i]].edge_type]])]

\* the nodes, edges and bridges of the MultimodalGraph, as a caller reads them
MMView ==
    [concept_nodes |-> AsTuple([i \in 1..Len(concept_nodes) |->
                                    node_heap[concept_nodes[i].ref]]),
     visual_nodes |-> AsTuple([i \in 1..Len(visual_nodes) |->
                                    node_heap[visual_nodes[i].ref]]),
     concept_edges |-> Deref(edge_heap, concept_edges),
     visual_edges |-> Deref(edge_heap, visual_edges),
     resonance_bridges |-> Deref(edge_heap, resonance_bridges)]

\* a MultimodalGraph as create_multimodal_graph and its callers build it: nc concept
\* nodes, nv visual nodes, one bridge per (concept, visual) pair, and ne edges added
\* to the concept subgraph
InitMultimodal ==
    \E D \in Dims, nc \in 1..2, nv \in 0..1, ne \in 0..1, a \in Activations :
        LET bridges == AsTuple([i \in 1..(nc * nv) |->
                            Edge(ConceptIds[i], VisualIds[1], ResonanceWeights[i],
                                 "resonance")])
            sub == IF ne = 1 /\ nc = 2
                   THEN <<Edge(ConceptIds[1], ConceptIds[2], 500, "semantic"),
                          Edge(ConceptIds[1], ConceptIds[2], 1000, "structural")>>
                   ELSE <<>>
        IN /\ node_heap =
                AsTuple([i \in 1..(nc + nv) |->
                    [id |-> IF i <= nc THEN ConceptIds[i] ELSE VisualIds[i - nc],
                     position |-> UnitVectors(D)[i],
                     activation |-> a]])
           /\ concept_nodes = AsTuple([i \in 1..nc |-> [id |-> ConceptIds[i], ref |-> i]])
           /\ visual_nodes = AsTuple([i \in 1..nv |-> [id |-> VisualIds[i], ref |-> nc + i]])
           /\ edge_heap = bridges \o sub
           /\ resonance_bridges = AsTuple([i \in 1..Len(bridges) |-> i])
           /\ concept_edges = AsTuple([i \in 1..Len(sub) |-> Len(bridges) + i])
           /\ visual_edges = <<>>
           /\ nodes = <<>>
           /\ edges = <<>>
           /\ KernelIdle(D)
           /\ ColonyIdle
           /\ calls = <<[op |-> "create_multimodal_graph", factor |-> 0,
                         weights |-> AsTuple([i \in 1..Len(bridges) |-> bridges[i].weight]),
                         frame |->
                            [concept_nodes |->
                                AsTuple([i \in 1..nc |-> [id |-> ConceptIds[i], ref |-> i]]),
                             visual_nodes |->
                                AsTuple([i \in 1..nv |-> [id |-> VisualIds[i],
                                                          ref |-> nc + i]]),
                             concept_edges |-> sub,
                             visual_edges |-> <<>>,
                             bridges |-> AsTuple([i \in 1..Len(bridges) |->
                                [source_id |-> bridges[i].source_id,
                                 target_id |-> bridges[i].target_id,
                                 edge_type |-> bridges[i].edge_type]])]]>>

KernelNotRunning == pc \in {"idle", "done", "error"}

\* graph.amplify_visual_cortex(factor), lines 363-370
AmplifyVisualCortex ==
    \E factor \in Factors :
        /\ KernelNotRunning
        /\ Len(calls) <= MaxCalls
        /\ edge_heap' = amplify_visual_cortex(edge_heap, resonance_bridges, factor)
        /\ UNCHANGED <<node_heap, nodes, edges, mmVars, kernelVars, colonyVars>>
        /\ calls' = Append(calls, [op |-> "amplify_visual_cortex", factor |-> factor,
                                   weights |-> BridgeWeights', frame |-> MMFrame'])

\* graph.mute_visual_cortex(), lines 372-379
MuteVisualCortex ==
    /\ KernelNotRunning
    /\ Len(calls) <= MaxCalls
    /\ edge_heap' = mute_visual_cortex(edge_heap, resonance_bridges)
    /\ UNCHANGED <<node_heap, nodes, edges, mmVars, kernelVars, colonyVars>>
    /\ calls' = Append(calls, [op |-> "mute_visual_cortex", factor |-> 0,
                               weights |-> BridgeWeights', frame |-> MMFrame'])

\* merged = graph.merge_for_propagation(); embeddings = merged.get_node_positions();
\* orbital_propagation_kernel(embeddings, merged, ...) is entered
Propagate ==
    \E c \in PropagateCycles :
        /\ pc = "idle"
        /\ Len(calls) <= MaxCalls
        /\ LET merged == merge_for_propagation(concept_nodes, visual_nodes, concept_edges,
                                               visual_edges, resonance_bridges)
           IN /\ nodes' = merged.nodes
              /\ edges' = merged.edges
              /\ embeddings' = AsTuple([i \in 1..Len(merged.nodes) |->
                                            node_heap[merged.nodes[i].ref].position])
              /\ edges0' = Deref(edge_heap, merged.edges)
        /\ cycles' = c
        /\ convergence_threshold' = DefaultConvergenceThreshold
        /\ cycle' = 0
        /\ energy_history' = <<>>
        /\ convergence_cycle' = c
        /\ pc' = IF c > 0 THEN "loop" ELSE "metrics"
        /\ calls' = Append(calls, [op |-> "propagate", factor |-> 0,
                                   weights |-> BridgeWeights, frame |-> MMFrame])
        /\ UNCHANGED <<node_heap, edge_heap, mmVars, metrics, error, dim, broke, colonyVars>>

NextMultimodal ==
    \/ AmplifyVisualCortex
    \/ MuteVisualCortex
    \/ Propagate
    \/ KernelCycle
    \/ KernelReturn

SpecMultimodal == InitMultimodal /\ [][NextMultimodal]_vars

\* C8: the graph merge_for_propagation() returns is a derived view: no step of a
\* propagation run on it (rewiring, activation decay, position or weight updates)
\* changes the nodes, the edges or the resonance bridges of the MultimodalGraph.
C8_MergedGraphIsDerivedView ==
    [][(pc = "loop" \/ pc = "metrics") => (MMView' = MMView)]_vars

IsMM(k, name) == calls[k].op = name

AllZero(ws) == \A i \in 1..Len(ws) : ws[i] = 0

\* C9: once mute_visual_cortex() has been called (after an amplify_visual_cortex or
\* not), every resonance bridge weight is exactly 0, whatever the weights were, and
\* every later amplify_visual_cortex leaves it 0.
C9_MutedWeightsStayZero ==
    \A k \in 1..Len(calls) :
        IsMM(k, "mute_visual_cortex") =>
            /\ AllZero(BridgeWeights)
            /\ \A m \in k..Len(calls) : AllZero(calls[m].weights)

C9_AmplifiedMutedAmplified ==
    /\ Len(calls) = 4
    /\ IsMM(2, "amplify_visual_cortex")
    /\ IsMM(3, "mute_visual_cortex")
    /\ IsMM(4, "amplify_visual_cortex")
    /\ Len(calls[1].weights) = 2
    /\ \A i \in 1..2 : calls[1].weights[i] > 0 /\ calls[2].weights[i] > calls[1].weights[i]

SameCallTwice(k) ==
    /\ k >= 2
    /\ calls[k].op \in {"amplify_visual_cortex", "mute_visual_cortex"}
    /\ calls[k - 1].op = calls[k].op
    /\ calls[k - 1].factor = calls[k].factor

NoOtherSideEffect(k) ==
    (k >= 2 /\ calls[k].op \in {"amplify_visual_cortex", "mute_visual_cortex"}) =>
        calls[k].frame = calls[k - 1].frame

\* C10 as stated: amplify_visual_cortex(factor) and mute_visual_cortex() are
\* idempotent (the same call twice leaves the weights of the first call) and have
\* no other side effect.
C10_AmplifyAndMuteIdempotent ==
    \A k \in 1..Len(calls) :
        /\ SameCallTwice(k) => calls[k].weights = calls[k - 1].weights
        /\ NoOtherSideEffect(k)

\* C10 amended: mute_visual_cortex() is idempotent; amplify_visual_cortex(factor) is
\* not: a second call multiplies every weight by factor once more; neither changes
\* the node sets, the subgraph edges, or the number, endpoints and type of the
\* resonance bridges.
C10_MuteIdempotentAmplifyCompounds ==
    \A k \in 1..Len(calls) :
        /\ (SameCallTwice(k) /\ IsMM(k, "mute_visual_cortex")) =>
                calls[k].weights = calls[k - 1].weights
        /\ (SameCallTwice(k) /\ IsMM(k, "amplify_visual_cortex")) =>
                /\ Len(calls[k].weights) = Len(calls[k - 1].weights)
                /\ \A i \in 1..Len(calls[k].weights) :
                      calls[k].weights[i] =
                          RDiv(calls[k - 1].weights[i] * calls[k].factor, Scale)
        /\ NoOtherSideEffect(k)

C10_AmplifiedTwice ==
    /\ Len(calls) >= 3
    /\ SameCallTwice(3)
    /\ IsMM(3, "amplify_visual_cortex")
    /\ Len(calls[3].weights) = 2
    /\ \A i \in 1..2 : calls[3].weights[i] # calls[2].weights[i]

----------------------------------------------------------------------------
(* ThreeRingsClassifier: classify_node, classify_all_nodes.  The Node objects of
   the graphs classified carry their ring label and the is_input flag of their
   metadata. *)

\* ThreeRingsClassifier(): the defaults 0.8, 10, 0.3, and a classifier made with
\* lower inner thresholds
Classifiers ==
    { [inner_centrality_threshold |-> 800, inner_edge_threshold |-> 10,
       outer_centrality_threshold |-> 300],
      [inner_centrality_threshold |-> 500, inner_edge_threshold |-> 1,
       outer_centrality_threshold |-> 300] }

\* edge_count = len(graph.get_neighbors(node.id))
EdgeCount(dict, es, id) == Len(get_neighbors(dict, es, id))

\* centrality = edge_count / max(len(graph.nodes), 1)
Centrality(edge_count, n) == RDiv(edge_count * Scale, Max2(n, 1))

classify_node_outer_first(c, dict, es, node) ==
    LET edge_count == EdgeCount(dict, es, node.id)
        centrality == Centrality(edge_count, Len(dict))
    IN IF centrality < c.outer_centrality_threshold \/ node.is_input THEN "outer"
       ELSE IF /\ centrality > c.inner_centrality_threshold
               /\ edge_count > c.inner_edge_threshold
            THEN "inner"
            ELSE "middle"

\* classify_node(node, graph)
classify_node(c, dict, es, node) ==
    LET edge_count == EdgeCount(dict, es, node.id)
        centrality == Centrality(edge_count, Len(dict))
    IN IF /\ centrality > c.inner_centrality_threshold
          /\ edge_count > c.inner_edge_threshold
       THEN "inner"
       ELSE IF centrality < c.outer_centrality_threshold \/ node.is_input
            THEN "outer"
            ELSE "middle"

\* one ring towards the target per call
RingTowards(ring, target) ==
    IF ring = target THEN ring
    ELSE IF ring = "middle" THEN target ELSE "middle"

classify_all_nodes_one_ring_per_call(c, heap, dict, es) ==
    AsTuple([r \in 1..Len(heap) |->
        IF \E i \in 1..Len(dict) : dict[i].ref = r
        THEN [heap[r] EXCEPT !.ring = RingTowards(@, classify_node(c, dict, es, heap[r]))]
        ELSE heap[r]])

\* classify_all_nodes(graph): the Node heap after it
classify_all_nodes(c, heap, dict, es) ==
    AsTuple([r \in 1..Len(heap) |->
        IF \E i \in 1..Len(dict) : dict[i].ref = r
        THEN [heap[r] EXCEPT !.ring = classify_node(c, dict, es, heap[r])]
        ELSE heap[r]])

\* the ring labels of the nodes of the graph, in dict order
Rings == AsTuple([i \in 1..Len(nodes) |-> node_heap[nodes[i].ref].ring])

\* the graph without the ring labels, and the classifier
RingFrame ==
    [nodes |-> AsTuple([i \in 1..Len(nodes) |->
                  [id |-> nodes[i].id,
                   position |-> node_heap[nodes[i].ref].position,
                   activation |-> node_heap[nodes[i].ref].activation,
                   is_input |-> node_heap[nodes[i].ref].is_input]]),
     edges |-> Deref(edge_heap, edges),
     classifier |-> classifier]

\* edge lists of the graphs classified: none, a chain, all pairs, all pairs twice
\* (multi-edges), a self-loop on n1, and all pairs with an edge from n1 to no node
RingEdgeLists(N) ==
    { <<>>,
      AsTuple([i \in 1..(N - 1) |-> Edge(NodeIds[i], NodeIds[i + 1], 500, "semantic")]),
      AllPairs(N, Scale, "structural"),
      AllPairs(N, Scale, "structural") \o AllPairs(N, 500, "semantic"),
      <<Edge("n1", "n1", Scale, "structural")>>,
      AllPairs(N, Scale, "structural") \o <<Edge("n1", "ghost", 500, "semantic")>> }

\* the ring a Node is made with: the default 'middle', or one set by its maker
InitialRings == {"middle", "inner"}

InitRings ==
    \E N \in 0..MaxNodes, c \in Classifiers, ring \in InitialRings,
       flagged \in {0, 1, MaxNodes} :
      \E es \in RingEdgeLists(N) :
        /\ node_heap = AsTuple([i \in 1..N |->
                            [id |-> NodeIds[i], position |-> UnitVectors(3)[1],
                             activation |-> 0, ring |-> ring, is_input |-> i = flagged]])
        /\ nodes = AsTuple([i \in 1..N |-> [id |-> NodeIds[i], ref |-> i]])
        /\ edge_heap = es
        /\ edges = AsTuple([i \in 1..Len(es) |-> i])
        /\ KernelIdle(3)
        /\ InitMM
        /\ classifier = c
        /\ guardian = "none"
        /\ db = "none"
        /\ colony = "none"
        /\ calls = <<[op |-> "SemanticGraph",
                      rings |-> AsTuple([i \in 1..N |-> ring]),
                      frame |-> [nodes |-> AsTuple([i \in 1..N |->
                                              [id |-> NodeIds[i],
                                               position |-> UnitVectors(3)[1],
                                               activation |-> 0,
                                               is_input |-> i = flagged]]),
                                 edges |-> es,
                                 classifier |-> c]]>>

\* classifier.classify_all_nodes(graph), lines 452-455
ClassifyAllNodes ==
    /\ Len(calls) <= MaxCalls
    /\ node_heap' = classify_all_nodes(classifier, node_heap, nodes,
                                       Deref(edge_heap, edges))
    /\ UNCHANGED <<edge_heap, nodes, edges, mmVars, kernelVars, colonyVars>>
    /\ calls' = Append(calls, [op |-> "classify_all_nodes", rings |-> Rings',
                               frame |-> RingFrame'])

\* graph.add_edge(first id, last id, 1.0, 'structural') between two classifications
AddEdgeBetweenEnds ==
    /\ Len(calls) <= MaxCalls
    /\ Len(nodes) >= 1
    /\ edge_heap' = Append(edge_heap, Edge(nodes[1].id, nodes[Len(nodes)].id, Scale,
                                          "structural"))
    /\ edges' = Append(edges, Len(edge_heap) + 1)
    /\ UNCHANGED <<node_heap, nodes, mmVars, kernelVars, colonyVars>>
    /\ calls' = Append(calls, [op |-> "add_edge", rings |-> Rings', frame |-> RingFrame'])

NextRings == ClassifyAllNodes \/ AddEdgeBetweenEnds

SpecRings == InitRings /\ [][NextRings]_vars

\* the number of edges of es with an end at id
IncidentEdges(es, id) ==
    Cardinality({i \in 1..Len(es) : es[i].source_id = id \/ es[i].target_id = id})

\* the number of edges of es with one end at id and the other end at a node of ids
IncidentEdgesBetweenNodes(es, ids, id) ==
    Cardinality({i \in 1..Len(es) :
        \/ es[i].source_id = id /\ es[i].target_id \in ids
        \/ es[i].source_id # id /\ es[i].target_id = id /\ es[i].source_id \in ids})

\* the ring of the rule, in priority order, for a node of edge_count edges in a
\* graph of n nodes; centrality = edge_count / n is compared exactly
RingOfRule(c, edge_count, n, is_input) ==
    IF /\ edge_count * Scale > c.inner_centrality_threshold * n
       /\ edge_count > c.inner_edge_threshold
    THEN "inner"
    ELSE IF edge_count * Scale < c.outer_centrality_threshold * n \/ is_input
         THEN "outer"
         ELSE "middle"

JustClassified == calls[Len(calls)].op = "classify_all_nodes"

\* C11 as stated: classify_node gives the ring of the rule with edge_count the number
\* of edges incident to the node and centrality = edge_count / (total node count).
C11_RingRuleIncidentEdges ==
    JustClassified =>
        \A i \in 1..Len(nodes) :
            node_heap[nodes[i].ref].ring =
                RingOfRule(classifier, IncidentEdges(Deref(edge_heap, edges), nodes[i].id),
                           Len(nodes), node_heap[nodes[i].ref].is_input)

\* C11 amended: classify_node gives the ring of the rule with edge_count the number of
\* incident edges whose other end is a node of the graph (the length of
\* get_neighbors), and centrality = edge_count / (total node count).
C11_RingRuleNeighbourEdges ==
    JustClassified =>
        \A i \in 1..Len(nodes) :
            node_heap[nodes[i].ref].ring =
                RingOfRule(classifier,
                           IncidentEdgesBetweenNodes(Deref(edge_heap, edges), Ids(nodes),
                                                     nodes[i].id),
                           Len(nodes), node_heap[nodes[i].ref].is_input)

\* a classified node with an edge to no node, for which the two counts give two rings
C11_DanglingEdgeNotCounted ==
    /\ JustClassified
    /\ \E i \in 1..Len(nodes) :
        /\ node_heap[nodes[i].ref].ring = "middle"
        /\ RingOfRule(classifier, IncidentEdges(Deref(edge_heap, edges), nodes[i].id),
                      Len(nodes), node_heap[nodes[i].ref].is_input) = "inner"

\* C12: classify_all_nodes called twice in a row, the graph not changed in between,
\* gives every node the same ring after the second call as after the first, and a
\* call changes nothing but ring labels.
C12_ClassifyTwiceSameRings ==
    \A k \in 2..Len(calls) :
        calls[k].op = "classify_all_nodes" =>
            /\ calls[k].frame = calls[k - 1].frame
            /\ calls[k - 1].op = "classify_all_nodes" => calls[k].rings = calls[k - 1].rings

\* two calls in a row, the first of which changed the ring the nodes were made with
C12_ClassifiedTwice ==
    /\ Len(calls) >= 3
    /\ calls[2].op = "classify_all_nodes"
    /\ calls[3].op = "classify_all_nodes"
    /\ calls[2].rings # calls[1].rings
    /\ \E i \in 1..Len(calls[1].rings) :
        calls[1].rings[i] = "inner" /\ calls[2].rings[i] = "outer"

----------------------------------------------------------------------------
(* Guardian: Python values, str, re.search and json.loads as Guardian uses them.
   A str is the sequence of its characters. *)

UpperCase ==
    <<"A", "B", "C", "D", "E", "F", "G", "H", "I", "J", "K", "L", "M", "N", "O", "P",
      "Q", "R", "S", "T", "U", "V", "W", "X", "Y", "Z">>

LowerCase ==
    <<"a", "b", "c", "d", "e", "f", "g", "h", "i", "j", "k", "l", "m", "n", "o", "p",
      "q", "r", "s", "t", "u", "v", "w", "x", "y", "z">>

Digits == {"0", "1", "2", "3", "4", "5", "6", "7", "8", "9"}

Letters == {UpperCase[i] : i \in 1..Len(UpperCase)} \cup
           {LowerCase[i] : i \in 1..Len(LowerCase)}

\* re.IGNORECASE: the case folding of one character
Lower(ch) ==
    IF \E i \in 1..Len(UpperCase) : UpperCase[i] = ch
    THEN LowerCase[CHOOSE i \in 1..Len(UpperCase) : UpperCase[i] = ch]
    ELSE ch

\* the case folding of a str
LowerAll(s) == AsTuple([i \in 1..Len(s) |-> Lower(s[i])])

\* \s
IsSpace(ch) == ch \in {" ", "\t", "\n", "\r"}

\* \w
IsWord(ch) == ch \in Letters \/ ch \in Digits \/ ch = "_"

\* the atoms of the patterns: a literal character, \s+, \s*, \w+
Lit(ch) == [atom |-> "lit", ch |-> ch]
SpacePlus == [atom |-> "\\s+", ch |-> ""]
SpaceStar == [atom |-> "\\s*", ch |-> ""]
WordPlus == [atom |-> "\\w+", ch |-> ""]

Lits(chars) == AsTuple([i \in 1..Len(chars) |-> Lit(chars[i])])

\* the characters i..(i + k - 1) of s all satisfy the class of the atom
RunOf(atom, s, i, k) ==
    /\ i + k - 1 <= Len(s)
    /\ \A j \in i..(i + k - 1) :
        IF atom = "\\w+" THEN IsWord(s[j]) ELSE IsSpace(s[j])

\* the pattern (its letters in lower case, as all of DANGEROUS_PATTERNS are) matches
\* the case-folded s from position i on
RECURSIVE MatchHere(_, _, _)
MatchHere(pattern, s, i) ==
    IF pattern = <<>> THEN TRUE
    ELSE LET a == Head(pattern)
         IN IF a.atom = "lit"
            THEN /\ i <= Len(s)
                 /\ s[i] = a.ch
                 /\ MatchHere(Tail(pattern), s, i + 1)
            ELSE \E k \in (IF a.atom = "\\s*" THEN 0 ELSE 1)..(Len(s) + 1 - i) :
                    /\ RunOf(a.atom, s, i, k)
                    /\ MatchHere(Tail(pattern), s, i + k)

\* re.search(pattern, s, re.IGNORECASE) is not None
re_search(pattern, s) ==
    LET folded == LowerAll(s)
    IN \E i \in 1..(Len(s) + 1) : MatchHere(pattern, folded, i)

\* sub in s, for two str
Contains(s, sub) ==
    \E i \in 1..(Len(s) + 1) :
        /\ i + Len(sub) - 1 <= Len(s)
        /\ \A j \in 1..Len(sub) : s[i + j - 1] = sub[j]

\* Python values
Str(chars) == [kind |-> "str", text |-> chars]
Dict(items) == [kind |-> "dict", items |-> items]
List(items) == [kind |-> "list", items |-> items]
None == [kind |-> "none"]
IntValue == [kind |-> "int"]

\* the characters of the keys Guardian looks for
KeyChars ==
    [type |-> <<"t", "y", "p", "e">>,
     data |-> <<"d", "a", "t", "a">>,
     object |-> <<"o", "b", "j", "e", "c", "t">>,
     metadata |-> <<"m", "e", "t", "a", "d", "a", "t", "a">>,
     userId |-> <<"u", "s", "e", "r", "I", "d">>,
     tier |-> <<"t", "i", "e", "r">>,
     subscription |-> <<"s", "u", "b", "s", "c", "r", "i", "p", "t", "i", "o", "n">>,
     user_id |-> <<"u", "s", "e", "r", "_", "i", "d">>,
     image_url |-> <<"i", "m", "a", "g", "e", "_", "u", "r", "l">>,
     event_type |-> <<"e", "v", "e", "n", "t", "_", "t", "y", "p", "e">>]

\* key in v: "yes", "no", or "TypeError" when v is no container
In(key, v) ==
    IF v.kind = "dict" THEN (IF key \in DOMAIN v.items THEN "yes" ELSE "no")
    ELSE IF v.kind = "list"
         THEN (IF \E i \in 1..Len(v.items) :
                      v.items[i].kind = "str" /\ v.items[i].text = KeyChars[key]
               THEN "yes" ELSE "no")
         ELSE IF v.kind = "str"
              THEN (IF Contains(v.text, KeyChars[key]) THEN "yes" ELSE "no")
              ELSE "TypeError"

----------------------------------------------------------------------------
(* Guardian *)

\* DANGEROUS_PATTERNS, lines 17-27, in list order
DANGEROUS_PATTERNS ==
    << [source |-> "rm\\s+-rf",
        atoms |-> Lits(<<"r", "m">>) \o <<SpacePlus>> \o Lits(<<"-", "r", "f">>)],
       [source |-> "delete\\s+from\\s+\\w+",
        atoms |-> Lits(<<"d", "e", "l", "e", "t", "e">>) \o <<SpacePlus>>
                  \o Lits(<<"f", "r", "o", "m">>) \o <<SpacePlus, WordPlus>>],
       [source |-> "drop\\s+table",
        atoms |-> Lits(<<"d", "r", "o", "p">>) \o <<SpacePlus>>
                  \o Lits(<<"t", "a", "b", "l", "e">>)],
       [source |-> "drop\\s+database",
        atoms |-> Lits(<<"d", "r", "o", "p">>) \o <<SpacePlus>>
                  \o Lits(<<"d", "a", "t", "a", "b", "a", "s", "e">>)],
       [source |-> "truncate\\s+table",
        atoms |-> Lits(<<"t", "r", "u", "n", "c", "a", "t", "e">>) \o <<SpacePlus>>
                  \o Lits(<<"t", "a", "b", "l", "e">>)],
       [source |-> "format\\s+",
        atoms |-> Lits(<<"f", "o", "r", "m", "a", "t">>) \o <<SpacePlus>>],
       [source |-> "mkfs\\.",
        atoms |-> Lits(<<"m", "k", "f", "s", ".">>)],
       [source |-> "dd\\s+if=",
        atoms |-> Lits(<<"d", "d">>) \o <<SpacePlus>> \o Lits(<<"i", "f", "=">>)],
       [source |-> ">\\s*/dev/sd",
        atoms |-> <<Lit(">"), SpaceStar>>
                  \o Lits(<<"/", "d", "e", "v", "/", "s", "d">>)] >>

RequiredFieldsTypeOnly ==
    [validate_revenue |-> <<"type">>,
     process_image |-> <<"user_id", "image_url">>,
     analyze_security |-> <<"user_id", "event_type">>]

\* REQUIRED_FIELDS, lines 30-34
REQUIRED_FIELDS ==
    [validate_revenue |-> <<"type", "data">>,
     process_image |-> <<"user_id", "image_url">>,
     analyze_security |-> <<"user_id", "event_type">>]

\* Guardian(), lines 36-38
NewGuardian == [blocked_count |-> 0, approved_count |-> 0]

\* ' '.join(args) raises TypeError unless every item is a str
AllStr(args) == \A i \in 1..Len(args) : args[i].kind = "str"

\* ' '.join(args)
RECURSIVE JoinArgs(_)
JoinArgs(args) ==
    IF args = <<>> THEN <<>>
    ELSE IF Len(args) = 1 THEN args[1].text
         ELSE args[1].text \o <<" ">> \o JoinArgs(Tail(args))

\* the index of the first pattern found in the command, 0 when none is
RECURSIVE FirstDangerousFrom(_, _)
FirstDangerousFrom(command, p) ==
    IF p > Len(DANGEROUS_PATTERNS) THEN 0
    ELSE IF re_search(DANGEROUS_PATTERNS[p].atoms, command) THEN p
         ELSE FirstDangerousFrom(command, p + 1)

FirstDangerous(command) == FirstDangerousFrom(command, 1)

\* the str {}
JsonEmptyObject ==
    <<"{", "}">>

\* the str {"type": "test"}
JsonTypeOnly ==
    <<"{", "\"", "t", "y", "p", "e", "\"", ":", " ", "\"", "t", "e", "s", "t", "\"",
      "}">>

\* the str {"type": "test", "data": {}}
JsonTypeAndData ==
    <<"{", "\"", "t", "y", "p", "e", "\"", ":", " ", "\"", "t", "e", "s", "t", "\"",
      ",", " ", "\"", "d", "a", "t", "a", "\"", ":", " ", "{", "}", "}">>

\* the str "type data"
JsonString ==
    <<"\"", "t", "y", "p", "e", " ", "d", "a", "t", "a", "\"">>

\* the str ["type", "data"]
JsonArray ==
    <<"[", "\"", "t", "y", "p", "e", "\"", ",", " ", "\"", "d", "a", "t", "a", "\"",
      "]">>

\* the str 5
JsonNumber ==
    <<"5">>

\* the str null
JsonNull ==
    <<"n", "u", "l", "l">>

\* the str not json
NotJson ==
    <<"n", "o", "t", " ", "j", "s", "o", "n">>

\* the str checkout.session.completed
CheckoutSessionCompleted ==
    <<"c", "h", "e", "c", "k", "o", "u", "t", ".", "s", "e", "s", "s", "i", "o", "n",
      ".", "c", "o", "m", "p", "l", "e", "t", "e", "d">>

\* the str user123
User123 ==
    <<"u", "s", "e", "r", "1", "2", "3">>

\* the str bronze
Bronze ==
    <<"b", "r", "o", "n", "z", "e">>

\* the str sub_123
Sub123 ==
    <<"s", "u", "b", "_", "1", "2", "3">>

\* the str invoice.paid
InvoicePaid ==
    <<"i", "n", "v", "o", "i", "c", "e", ".", "p", "a", "i", "d">>

Metadata == Dict([userId |-> Str(User123), tier |-> Str(Bronze)])

Event(type, object) == Dict([type |-> Str(type), data |-> Dict([object |-> object])])

\* the str {"type": "invoice.paid", "data": {"object": {}}}
JsonInvoicePaid ==
    <<"{", "\"", "t", "y", "p", "e", "\"", ":", " ", "\"", "i", "n", "v", "o", "i",
      "c", "e", ".", "p", "a", "i", "d", "\"", ",", " ", "\"", "d", "a", "t", "a",
      "\"", ":", " ", "{", "\"", "o", "b", "j", "e", "c", "t", "\"", ":", " ", "{",
      "}", "}", "}">>

\* the str of the complete checkout.session.completed event of user123, bronze,
\* sub_123
JsonCheckout ==
    <<"{", "\"", "t", "y", "p", "e", "\"", ":", " ", "\"", "c", "h", "e", "c", "k",
      "o", "u", "t", ".", "s", "e", "s", "s", "i", "o", "n", ".", "c", "o", "m", "p",
      "l", "e", "t", "e", "d", "\"", ",", " ", "\"", "d", "a", "t", "a", "\"", ":",
      " ", "{", "\"", "o", "b", "j", "e", "c", "t", "\"", ":", " ", "{", "\"", "m",
      "e", "t", "a", "d", "a", "t", "a", "\"", ":", " ", "{", "\"", "u", "s", "e", "r",
      "I", "d", "\"", ":", " ", "\"", "u", "s", "e", "r", "1", "2", "3", "\"", ",",
      " ", "\"", "t", "i", "e", "r", "\"", ":", " ", "\"", "b", "r", "o", "n", "z",
      "e", "\"", "}", ",", " ", "\"", "s", "u", "b", "s", "c", "r", "i", "p", "t", "i",
      "o", "n", "\"", ":", " ", "\"", "s", "u", "b", "_", "1", "2", "3", "\"", "}",
      "}", "}">>

\* json.loads on the JSON texts above: the value each stands for
JsonValues ==
    << [text |-> JsonEmptyObject, value |-> Dict(<<>>)],
       [text |-> JsonTypeOnly, value |-> Dict([type |-> Str(<<"t", "e", "s", "t">>)])],
       [text |-> JsonTypeAndData, value |-> Dict([type |-> Str(<<"t", "e", "s", "t">>), data |-> Dict(<<>>)])],
       [text |-> JsonString, value |-> Str(<<"t", "y", "p", "e", " ", "d", "a", "t", "a">>)],
       [text |-> JsonArray, value |-> List(<<Str(KeyChars.type), Str(KeyChars.data)>>)],
       [text |-> JsonNumber, value |-> IntValue],
       [text |-> JsonNull, value |-> None],
       [text |-> JsonInvoicePaid, value |-> Event(InvoicePaid, Dict(<<>>))],
       [text |-> JsonCheckout,
        value |-> Event(CheckoutSessionCompleted,
                        Dict([metadata |-> Metadata, subscription |-> Str(Sub123)]))] >>

\* json.loads(text): the value, or JSONDecodeError for a text that is no JSON
json_loads(text) ==
    IF \E i \in 1..Len(JsonValues) : JsonValues[i].text = text
    THEN [raised |-> FALSE,
          value |-> JsonValues[CHOOSE i \in 1..Len(JsonValues) :
                                   JsonValues[i].text = text].value]
    ELSE [raised |-> TRUE, value |-> None]

\* the first required field that is not in the payload, 0 when all are
RECURSIVE FirstMissing(_, _, _)
FirstMissing(required, payload, i) ==
    IF i > Len(required) THEN 0
    ELSE IF In(required[i], payload) = "yes" THEN FirstMissing(required, payload, i + 1)
         ELSE i

ChecksCommandExecuteOnly(funcname) == funcname = "execute_command"

\* funcname in ['execute_command', 'run_script']
ChecksCommand(funcname) == funcname \in {"execute_command", "run_script"}

BlockedUncounted(g, reason, detail) ==
    [guardian |-> g, raised |-> FALSE, is_safe |-> FALSE, reason |-> <<reason, detail>>]

\* self.blocked_count += 1; return False, reason
Blocked(g, reason, detail) ==
    [guardian |-> [g EXCEPT !.blocked_count = @ + 1], raised |-> FALSE,
     is_safe |-> FALSE, reason |-> <<reason, detail>>]

\* self.approved_count += 1; return True, "Task approved"
Approved(g) ==
    [guardian |-> [g EXCEPT !.approved_count = @ + 1], raised |-> FALSE,
     is_safe |-> TRUE, reason |-> <<"Task approved", "">>]

\* an exception leaves validate_task
TaskRaised(g, exception) ==
    [guardian |-> g, raised |-> TRUE, is_safe |-> FALSE, reason |-> <<exception, "">>]

\* lines 60-75: the required fields of funcname
CheckRequiredFields(g, funcname, args) ==
    IF args = <<>>
    THEN Blocked(g, "Missing required arguments for", funcname)
    ELSE LET parsed == IF args[1].kind = "str" THEN json_loads(args[1].text)
                       ELSE [raised |-> FALSE, value |-> args[1]]
             required == REQUIRED_FIELDS[funcname]
             missing == FirstMissing(required, parsed.value, 1)
         IN IF parsed.raised THEN Blocked(g, "Invalid payload format", "JSONDecodeError")
            ELSE IF missing = 0 THEN Approved(g)
            ELSE IF In(required[missing], parsed.value) = "TypeError"
                 THEN Blocked(g, "Invalid payload format", "TypeError")
                 ELSE Blocked(g, "Missing required field", required[missing])

\* validate_task(funcname, args), lines 40-78: the Guardian after it and what it
\* returns or raises
validate_task(g, funcname, args) ==
    IF ChecksCommand(funcname) /\ ~AllStr(args) THEN TaskRaised(g, "TypeError")
    ELSE LET found == IF ChecksCommand(funcname) THEN FirstDangerous(JoinArgs(args))
                      ELSE 0
         IN IF found # 0
            THEN Blocked(g, "Blocked dangerous pattern", DANGEROUS_PATTERNS[found].source)
            ELSE IF funcname \in DOMAIN REQUIRED_FIELDS
                 THEN CheckRequiredFields(g, funcname, args)
                 ELSE Approved(g)

\* get_stats(), lines 117-123
get_stats(g) ==
    [blocked |-> g.blocked_count, approved |-> g.approved_count,
     total |-> g.blocked_count + g.approved_count]

\* event_type == 'checkout.session.completed'
IsCheckout(v) == v.kind = "str" /\ v.text = CheckoutSessionCompleted

StripeResult(raised, is_valid, reason) ==
    [raised |-> raised, is_valid |-> is_valid, reason |-> reason]

\* v[key] raises TypeError unless v is a dict (a str or a list takes no str index)
Subscriptable(v) == v.kind = "dict"

\* lines 103-113: the checks of a checkout session
ValidateSession(session) ==
    IF In("metadata", session) = "TypeError" THEN StripeResult(TRUE, FALSE, "TypeError")
    ELSE IF In("metadata", session) = "no"
    THEN StripeResult(FALSE, FALSE, "Missing session metadata")
    ELSE IF ~Subscriptable(session) THEN StripeResult(TRUE, FALSE, "TypeError")
    ELSE IF In("userId", session.items.metadata) = "TypeError"
    THEN StripeResult(TRUE, FALSE, "TypeError")
    ELSE IF In("userId", session.items.metadata) = "no"
    THEN StripeResult(FALSE, FALSE, "Missing userId in metadata")
    ELSE IF In("tier", session.items.metadata) = "no"
    THEN StripeResult(FALSE, FALSE, "Missing tier in metadata")
    ELSE IF In("subscription", session) = "no"
    THEN StripeResult(FALSE, FALSE, "Missing subscription ID")
    ELSE StripeResult(FALSE, TRUE, "Stripe payload valid")

ValidateSessionTierFirst(session) ==
    IF In("metadata", session) = "TypeError" THEN StripeResult(TRUE, FALSE, "TypeError")
    ELSE IF In("metadata", session) = "no"
    THEN StripeResult(FALSE, FALSE, "Missing session metadata")
    ELSE IF ~Subscriptable(session) THEN StripeResult(TRUE, FALSE, "TypeError")
    ELSE IF In("tier", session.items.metadata) = "TypeError"
    THEN StripeResult(TRUE, FALSE, "TypeError")
    ELSE IF In("tier", session.items.metadata) = "no"
    THEN StripeResult(FALSE, FALSE, "Missing tier in metadata")
    ELSE IF In("userId", session.items.metadata) = "no"
    THEN StripeResult(FALSE, FALSE, "Missing userId in metadata")
    ELSE IF In("subscription", session) = "no"
    THEN StripeResult(FALSE, FALSE, "Missing subscription ID")
    ELSE StripeResult(FALSE, TRUE, "Stripe payload valid")

\* validate_stripe_payload(payload), lines 80-115, for a payload that is a dict:
\* what it returns or raises
validate_stripe_payload(payload) ==
    IF In("type", payload) = "no" THEN StripeResult(FALSE, FALSE, "Missing event type")
    ELSE IF In("data", payload) = "no"
    THEN StripeResult(FALSE, FALSE, "Missing event data")
    ELSE IF In("object", payload.items.data) = "TypeError"
    THEN StripeResult(TRUE, FALSE, "TypeError")
    ELSE IF In("object", payload.items.data) = "no"
    THEN StripeResult(FALSE, FALSE, "Missing event data")
    ELSE IF ~IsCheckout(payload.items.type)
    THEN StripeResult(FALSE, TRUE, "Stripe payload valid")
    ELSE IF ~Subscriptable(payload.items.data) THEN StripeResult(TRUE, FALSE, "TypeError")
    ELSE ValidateSession(payload.items.data.items.object)

----------------------------------------------------------------------------
(* Guardian: the calls made on it *)

\* the str rm -rf /
RmRf ==
    <<"r", "m", " ", "-", "r", "f", " ", "/">>

\* the str RM
RM ==
    <<"R", "M">>

\* the str -RF
DashRF ==
    <<"-", "R", "F">>

\* the str rm-rf
RmNoSpace ==
    <<"r", "m", "-", "r", "f">>

\* the str echo "hello"
EchoHello ==
    <<"e", "c", "h", "o", " ", "\"", "h", "e", "l", "l", "o", "\"">>

\* the str delete from
DeleteFrom ==
    <<"d", "e", "l", "e", "t", "e", " ", "f", "r", "o", "m">>

\* the str delete from users
DeleteFromUsers ==
    <<"d", "e", "l", "e", "t", "e", " ", "f", "r", "o", "m", " ", "u", "s", "e", "r",
      "s">>

\* the str cat >/dev/sda
CatToDevice ==
    <<"c", "a", "t", " ", ">", "/", "d", "e", "v", "/", "s", "d", "a">>

\* the str an object
AnObject ==
    <<"a", "n", " ", "o", "b", "j", "e", "c", "t">>

Task(funcname, args) == [funcname |-> funcname, args |-> args]

\* the tasks given to validate_task: commands that hold a dangerous pattern (in one
\* argument, over two arguments, in upper case, with no space after '>'), commands
\* that hold none, a command argument that is no str, and payloads for the funcnames
\* of REQUIRED_FIELDS as JSON text and as objects
Tasks ==
    << Task("execute_command", <<Str(RmRf)>>),
       Task("run_script", <<Str(RM), Str(DashRF)>>),
       Task("execute_command", <<Str(RmNoSpace)>>),
       Task("execute_command", <<Str(EchoHello)>>),
       Task("run_script", <<Str(DeleteFrom)>>),
       Task("run_script", <<Str(DeleteFromUsers)>>),
       Task("execute_command", <<Str(CatToDevice)>>),
       Task("execute_command", <<IntValue>>),
       Task("run_script", <<>>),
       Task("validate_revenue", <<>>),
       Task("validate_revenue", <<Str(JsonEmptyObject)>>),
       Task("validate_revenue", <<Str(JsonTypeOnly)>>),
       Task("validate_revenue", <<Str(JsonTypeAndData)>>),
       Task("validate_revenue", <<Str(NotJson)>>),
       Task("validate_revenue", <<Str(JsonString)>>),
       Task("validate_revenue", <<Str(JsonArray)>>),
       Task("validate_revenue", <<Str(JsonNumber)>>),
       Task("validate_revenue", <<Str(JsonNull)>>),
       Task("validate_revenue", <<Dict([type |-> Str(CheckoutSessionCompleted),
                                        data |-> Dict(<<>>)])>>),
       Task("process_image", <<Dict([user_id |-> Str(User123)])>>),
       Task("analyze_security", <<Dict([user_id |-> Str(User123),
                                        event_type |-> Str(InvoicePaid)])>>),
       Task("send_digest", <<>>) >>

\* the payloads given to validate_stripe_payload: the complete checkout event, the
\* events of the tests with one part missing, another event type, and events in
\* which the value of 'data', 'object' or 'metadata' is null or a str
StripePayloads ==
    << Event(CheckoutSessionCompleted,
             Dict([metadata |-> Metadata, subscription |-> Str(Sub123)])),
       Dict([data |-> Dict([object |-> Dict(<<>>)])]),
       Dict([type |-> Str(CheckoutSessionCompleted)]),
       Dict([type |-> Str(CheckoutSessionCompleted), data |-> Dict(<<>>)]),
       Event(CheckoutSessionCompleted, Dict([subscription |-> Str(Sub123)])),
       Event(CheckoutSessionCompleted,
             Dict([metadata |-> Dict([tier |-> Str(Bronze)]),
                   subscription |-> Str(Sub123)])),
       Event(CheckoutSessionCompleted,
             Dict([metadata |-> Dict([userId |-> Str(User123)]),
                   subscription |-> Str(Sub123)])),
       Event(CheckoutSessionCompleted,
             Dict([metadata |-> Dict(<<>>), subscription |-> Str(Sub123)])),
       Event(CheckoutSessionCompleted, Dict([metadata |-> Metadata])),
       Event(InvoicePaid, Dict(<<>>)),
       Dict([type |-> Str(CheckoutSessionCompleted), data |-> None]),
       Dict([type |-> Str(InvoicePaid), data |-> Str(AnObject)]),
       Event(CheckoutSessionCompleted,
             Dict([metadata |-> None, subscription |-> Str(Sub123)])) >>

\* what is kept of a call once a later call is made: its outcome and the counters
Outcome(entry) == [entry EXCEPT !.funcname = "", !.args = <<>>, !.payload = None,
                                !.reason = <<>>]

Logged(entry) ==
    IF calls = <<>> THEN <<entry>>
    ELSE Append([calls EXCEPT ![Len(calls)] = Outcome(@)], entry)

InitGuardian ==
    /\ node_heap = <<>>
    /\ nodes = <<>>
    /\ edge_heap = <<>>
    /\ edges = <<>>
    /\ KernelIdle(3)
    /\ InitMM
    /\ classifier = "none"
    /\ guardian = NewGuardian
    /\ db = "none"
    /\ colony = "none"
    /\ calls = <<>>

\* guardian.validate_task(funcname, args), lines 40-78
ValidateTask ==
    \E i \in 1..Len(Tasks) :
        LET r == validate_task(guardian, Tasks[i].funcname, Tasks[i].args)
        IN /\ Len(calls) < MaxCalls
           /\ guardian' = r.guardian
           /\ calls' = Logged([op |-> "validate_task", funcname |-> Tasks[i].funcname,
                               args |-> Tasks[i].args, payload |-> None,
                               raised |-> r.raised, ok |-> r.is_safe,
                               reason |-> r.reason, stats |-> get_stats(r.guardian)])
           /\ UNCHANGED <<graphVars, mmVars, kernelVars, classifier, db, colony>>

\* guardian.validate_stripe_payload(payload), lines 80-115
ValidateStripePayload ==
    \E i \in 1..Len(StripePayloads) :
        LET r == validate_stripe_payload(StripePayloads[i])
        IN /\ Len(calls) < MaxCalls
           /\ calls' = Logged([op |-> "validate_stripe_payload", funcname |-> "",
                               args |-> <<>>, payload |-> StripePayloads[i],
                               raised |-> r.raised, ok |-> r.is_valid,
                               reason |-> <<r.reason>>, stats |-> get_stats(guardian)])
           /\ UNCHANGED <<graphVars, mmVars, kernelVars, colonyVars>>

NextGuardian == ValidateTask \/ ValidateStripePayload

SpecGuardian == InitGuardian /\ [][NextGuardian]_vars

----------------------------------------------------------------------------
(* Properties of Guardian, checked under SpecGuardian *)

ZeroStats == [blocked |-> 0, approved |-> 0, total |-> 0]

StatsBefore(k) == IF k = 1 THEN ZeroStats ELSE calls[k - 1].stats

\* the validate_task calls among the first k that returned
ReturnedTasks(k) ==
    Cardinality({j \in 1..k : calls[j].op = "validate_task" /\ ~calls[j].raised})

\* C14: every validate_task call that returns increments exactly one of blocked_count
\* and approved_count by exactly 1 (blocked when it returned is_safe = False, approved
\* when True), so get_stats() reports total = blocked + approved = the number of
\* validate_task calls that returned.
C14_StatsCountEveryCall ==
    \A k \in 1..Len(calls) :
        /\ (calls[k].op = "validate_task" /\ ~calls[k].raised) =>
            /\ calls[k].stats.blocked =
                   StatsBefore(k).blocked + (IF calls[k].ok THEN 0 ELSE 1)
            /\ calls[k].stats.approved =
                   StatsBefore(k).approved + (IF calls[k].ok THEN 1 ELSE 0)
        /\ calls[k].stats.total = calls[k].stats.blocked + calls[k].stats.approved
        /\ calls[k].stats.total = ReturnedTasks(k)

\* three calls counted, of which one approved and one blocked
C14_ApprovedAndBlockedCounted ==
    /\ Len(calls) = MaxCalls
    /\ calls[Len(calls)].stats.total = MaxCalls
    /\ calls[Len(calls)].stats.approved >= 1
    /\ calls[Len(calls)].stats.blocked >= 1

LastCall == calls[Len(calls)]

LastIsTask == calls # <<>> /\ LastCall.op = "validate_task"

\* the patterns found in the space-joined arguments
PatternsFound(args) ==
    {p \in 1..Len(DANGEROUS_PATTERNS) : re_search(DANGEROUS_PATTERNS[p].atoms, JoinArgs(args))}

\* C15: validate_task never approves an execute_command or run_script task whose
\* space-joined arguments match an entry of DANGEROUS_PATTERNS, in any case of
\* letters: it returns is_safe = False with a reason naming a pattern that matches;
\* a command matching no pattern is approved.
C15_DangerousCommandsBlocked ==
    (/\ LastIsTask
     /\ LastCall.funcname \in {"execute_command", "run_script"}
     /\ AllStr(LastCall.args)) =>
        /\ ~LastCall.raised
        /\ IF PatternsFound(LastCall.args) # {}
           THEN /\ ~LastCall.ok
                /\ LastCall.reason[1] = "Blocked dangerous pattern"
                /\ \E p \in PatternsFound(LastCall.args) :
                        LastCall.reason[2] = DANGEROUS_PATTERNS[p].source
           ELSE LastCall.ok /\ LastCall.reason[1] = "Task approved"

\* a run_script task blocked for a pattern written in upper case over two arguments
C15_UpperCaseRunScriptBlocked ==
    /\ LastIsTask
    /\ LastCall.funcname = "run_script"
    /\ LastCall.args = <<Str(RM), Str(DashRF)>>
    /\ ~LastCall.ok
    /\ LastCall.stats.blocked >= 1

\* the payload of a task: its first argument, parsed as JSON when it is a str
PayloadOf(args) ==
    IF args[1].kind = "str" THEN json_loads(args[1].text)
    ELSE [raised |-> FALSE, value |-> args[1]]

\* the payload is an object that has every field
HasFields(v, fields) ==
    v.kind = "dict" /\ \A i \in 1..Len(fields) : fields[i] \in DOMAIN v.items

\* C16: for a funcname of REQUIRED_FIELDS, validate_task approves the task if and
\* only if args is non-empty and its first argument (parsed as JSON when it is a
\* str) has every required field of the funcname; it is blocked for an empty
\* payload, missing arguments or an unparsable payload.
C16_ApprovedIffRequiredFields ==
    (LastIsTask /\ LastCall.funcname \in DOMAIN REQUIRED_FIELDS) =>
        /\ ~LastCall.raised
        /\ LastCall.ok <=>
            /\ LastCall.args # <<>>
            /\ ~PayloadOf(LastCall.args).raised
            /\ HasFields(PayloadOf(LastCall.args).value,
                         REQUIRED_FIELDS[LastCall.funcname])

LastIsRevenueTypeOnly ==
    /\ LastIsTask
    /\ LastCall.funcname = "validate_revenue"
    /\ LastCall.args = <<Str(JsonTypeOnly)>>

\* C17 as stated: a validate_revenue task whose first argument is the JSON object
\* {"type": "test"} is approved with reason "Task approved" and counted in approved,
\* not in blocked.
C17_TypeOnlyApproved ==
    LastIsRevenueTypeOnly =>
        /\ LastCall.ok
        /\ LastCall.reason[1] = "Task approved"
        /\ LastCall.stats.approved = StatsBefore(Len(calls)).approved + 1
        /\ LastCall.stats.blocked = StatsBefore(Len(calls)).blocked

\* C17 amended: a validate_revenue task whose first argument is the JSON object
\* {"type": "test"} is blocked with reason "Missing required field: data" and counted
\* in blocked, not in approved; the JSON object {"type": "test", "data": {}} is approved
\* with reason "Task approved" and counted in approved, not in blocked.
C17_TypeOnlyBlockedTypeAndDataApproved ==
    /\ LastIsRevenueTypeOnly =>
        /\ ~LastCall.ok
        /\ LastCall.reason = <<"Missing required field", "data">>
        /\ LastCall.stats.blocked = StatsBefore(Len(calls)).blocked + 1
        /\ LastCall.stats.approved = StatsBefore(Len(calls)).approved
    /\ (/\ LastIsTask
        /\ LastCall.funcname = "validate_revenue"
        /\ LastCall.args = <<Str(JsonTypeAndData)>>) =>
        /\ LastCall.ok
        /\ LastCall.reason[1] = "Task approved"
        /\ LastCall.stats.approved = StatsBefore(Len(calls)).approved + 1
        /\ LastCall.stats.blocked = StatsBefore(Len(calls)).blocked

\* the task of the test, validated after another task
C17_TypeOnlyValidated == LastIsRevenueTypeOnly /\ Len(calls) >= 2 /\ ~LastCall.raised

\* v is an object with the key
Has(v, key) == v.kind = "dict" /\ key \in DOMAIN v.items

\* the reason of the first failing check, in the order event type, event data,
\* session metadata, userId, tier, subscription ID; "Stripe payload valid" when none
\* fails
StripeReason(payload) ==
    IF ~Has(payload, "type") THEN "Missing event type"
    ELSE IF ~Has(payload, "data") \/ ~Has(payload.items.data, "object")
    THEN "Missing event data"
    ELSE IF ~IsCheckout(payload.items.type) THEN "Stripe payload valid"
    ELSE IF ~Has(payload.items.data.items.object, "metadata")
    THEN "Missing session metadata"
    ELSE IF ~Has(payload.items.data.items.object.items.metadata, "userId")
    THEN "Missing userId in metadata"
    ELSE IF ~Has(payload.items.data.items.object.items.metadata, "tier")
    THEN "Missing tier in metadata"
    ELSE IF ~Has(payload.items.data.items.object, "subscription")
    THEN "Missing subscription ID"
    ELSE "Stripe payload valid"

LastIsStripe == calls # <<>> /\ LastCall.op = "validate_stripe_payload"

\* C18: validate_stripe_payload returns valid ("Stripe payload valid") exactly when
\* the payload has 'type' and 'data.object' and, for a checkout.session.completed
\* event, the session has 'metadata' with 'userId' and 'tier' and a 'subscription';
\* otherwise it returns invalid with the reason of the first failing check; it never
\* changes the blocked/approved counters.
C18_StripePayloadRule ==
    LastIsStripe =>
        /\ ~LastCall.raised
        /\ LastCall.reason = <<StripeReason(LastCall.payload)>>
        /\ LastCall.ok <=> (StripeReason(LastCall.payload) = "Stripe payload valid")
        /\ LastCall.stats = StatsBefore(Len(calls))

----------------------------------------------------------------------------
(* FinanceBee._handle_checkout_completed on the Supabase tables user_profiles and
   subscriptions and on Stripe.  db is [user_profiles, subscriptions]: the rows
   of each user in user_profiles (none or one) and the rows of subscriptions, each
   a stripe_subscription_id and its status.  Each call on Supabase or Stripe can
   succeed or raise: a scenario names the outcome of every call the handler makes. *)

\* what one call of func does: it returns, or raises an error of this message
Returns == [raises |-> FALSE, message |-> <<>>]
Raises(message) == [raises |-> TRUE, message |-> message]

\* the str Temporary failure
TemporaryFailure ==
    <<"T", "e", "m", "p", "o", "r", "a", "r", "y", " ", "f", "a", "i", "l", "u", "r", "e">>

\* the str Invalid user_id
InvalidUserId ==
    <<"I", "n", "v", "a", "l", "i", "d", " ", "u", "s", "e", "r", "_", "i", "d">>

\* the str Resource Not Found
ResourceNotFound ==
    <<"R", "e", "s", "o", "u", "r", "c", "e", " ", "N", "o", "t", " ", "F", "o", "u", "n", "d">>

\* the str permission forbidden
PermissionForbidden ==
    <<"p", "e", "r", "m", "i", "s", "s", "i", "o", "n", " ", "f", "o", "r", "b", "i", "d", "d", "e", "n">>

\* line 71: non_retryable = ['invalid', 'not found', 'unauthorized', 'forbidden']
non_retryable ==
    { <<"i", "n", "v", "a", "l", "i", "d">>,
      <<"n", "o", "t", " ", "f", "o", "u", "n", "d">>,
      <<"u", "n", "a", "u", "t", "h", "o", "r", "i", "z", "e", "d">>,
      <<"f", "o", "r", "b", "i", "d", "d", "e", "n">> }

\* lines 70-73: any(term in str(e).lower() for term in non_retryable)
NonRetryable(message) == \E term \in non_retryable : Contains(LowerAll(message), term)

\* the loop of _execute_with_retry, lines 65-86, from pass `attempt` on: attempts
\* holds what each call of func does, slept the delays waited so far.  The result
\* is whether an error was raised and which, what was returned ("result": what func
\* returned, "None": the loop ran out and the function fell off its end), how many
\* calls of func were made, and the delays waited
RECURSIVE RetryLoop(_, _, _, _, _)
RetryLoop(attempts, attempt, max_retries, base_delay, slept) ==
    IF attempt >= max_retries
    THEN [raised |-> FALSE, returned |-> "None", error |-> <<>>, made |-> attempt,
          slept |-> slept]
    ELSE IF ~attempts[attempt + 1].raises
    THEN [raised |-> FALSE, returned |-> "result", error |-> <<>>, made |-> attempt + 1,
          slept |-> slept]
    ELSE IF NonRetryable(attempts[attempt + 1].message) \/ attempt = max_retries - 1
    THEN [raised |-> TRUE, returned |-> "nothing", error |-> attempts[attempt + 1].message,
          made |-> attempt + 1, slept |-> slept]
    ELSE RetryLoop(attempts, attempt + 1, max_retries, base_delay,
                   Append(slept, base_delay * 2 ^ attempt))

\* _execute_with_retry(func, max_retries=3, base_delay=1), lines 49-86
execute_with_retry(attempts, max_retries, base_delay) ==
    RetryLoop(attempts, 0, max_retries, base_delay, <<>>)

\* the outcomes of the three attempts of a retried call
AlwaysOk == <<Returns, Returns, Returns>>
OkOnRetry == <<Raises(TemporaryFailure), Returns, Returns>>
NeverOk == <<Raises(TemporaryFailure), Raises(TemporaryFailure), Raises(TemporaryFailure)>>
NotRetried == <<Raises(InvalidUserId), Returns, Returns>>

\* a scenario: the outcome of the subscriptions lookup, of the profile lookup, of
\* the Stripe retrieve, the profile update and the upsert, each made through
\* _execute_with_retry (lines 238, 247, 259) on a call that does what its attempts say,
\* whether the update and the upsert return the rows they wrote, and the outcome of
\* the first and the second rollback update
Scenario(lookup, profile_lookup, retrieve, update, update_rows, upsert, upsert_rows, rollback) ==
    [lookup |-> lookup, profile_lookup |-> profile_lookup,
     retrieve |-> execute_with_retry(retrieve, 3, 1),
     update |-> execute_with_retry(update, 3, 1), update_rows |-> update_rows,
     upsert |-> execute_with_retry(upsert, 3, 1), upsert_rows |-> upsert_rows,
     rollback |-> rollback]

Scenarios ==
    << Scenario("ok", "ok", AlwaysOk, AlwaysOk, TRUE, AlwaysOk, TRUE, <<"ok", "ok">>),
       Scenario("raise", "ok", AlwaysOk, AlwaysOk, TRUE, AlwaysOk, TRUE, <<"ok", "ok">>),
       Scenario("ok", "raise", AlwaysOk, AlwaysOk, TRUE, AlwaysOk, TRUE, <<"ok", "ok">>),
       Scenario("ok", "ok", OkOnRetry, AlwaysOk, TRUE, AlwaysOk, TRUE, <<"ok", "ok">>),
       Scenario("ok", "ok", NeverOk, AlwaysOk, TRUE, AlwaysOk, TRUE, <<"ok", "ok">>),
       Scenario("ok", "ok", NotRetried, AlwaysOk, TRUE, AlwaysOk, TRUE, <<"ok", "ok">>),
       Scenario("ok", "ok", AlwaysOk, NeverOk, TRUE, AlwaysOk, TRUE, <<"ok", "ok">>),
       Scenario("ok", "ok", AlwaysOk, AlwaysOk, FALSE, AlwaysOk, TRUE, <<"ok", "ok">>),
       Scenario("ok", "ok", AlwaysOk, OkOnRetry, TRUE, NeverOk, TRUE, <<"ok", "ok">>),
       Scenario("ok", "ok", AlwaysOk, AlwaysOk, TRUE, NotRetried, TRUE, <<"ok", "ok">>),
       Scenario("ok", "ok", AlwaysOk, AlwaysOk, TRUE, AlwaysOk, FALSE, <<"ok", "ok">>),
       Scenario("ok", "ok", AlwaysOk, AlwaysOk, TRUE, NeverOk, TRUE, <<"raise", "raise">>),
       Scenario("ok", "ok", AlwaysOk, AlwaysOk, TRUE, AlwaysOk, FALSE, <<"raise", "ok">>),
       Scenario("ok", "ok", AlwaysOk, AlwaysOk, FALSE, AlwaysOk, TRUE, <<"raise", "raise">>) >>

\* session['metadata'].get('userId'), .get('tier'), session.get('subscription'):
\* "" stands for a value that is missing, None or empty
Session(user_id, tier, subscription_id) ==
    [user_id |-> user_id, tier |-> tier, subscription_id |-> subscription_id]

Sessions ==
    << Session("user123", "bronze", "sub_123"),
       Session("user123", "gold", "sub_123"),
       Session("user123", "gold", "sub_456"),
       Session("user123", "", "sub_123") >>

\* a row of user_profiles: subscription_tier, is_premium
Profile(tier, is_premium) == [subscription_tier |-> tier, is_premium |-> is_premium]

\* what the handler returns or raises, the tables after it, and the number of calls
\* it sent to Stripe, of updates to user_profiles and of upserts to subscriptions
Handled(tables, raised, message, stripe_calls, profile_writes, subscription_writes) ==
    [db |-> tables, raised |-> raised, message |-> message,
     stripe_calls |-> stripe_calls, profile_writes |-> profile_writes,
     subscription_writes |-> subscription_writes]

AlreadyProcessedNever(tables, subscription_id) == FALSE

\* lines 228-229: existing_sub.data and len(existing_sub.data) > 0
AlreadyProcessed(tables, subscription_id) ==
    \E row \in tables.subscriptions : row.stripe_subscription_id = subscription_id

\* a row of subscriptions
Subscription(subscription_id, status) ==
    [stripe_subscription_id |-> subscription_id, status |-> status]

\* table('subscriptions').upsert({... 'status': 'active' ...},
\* on_conflict='stripe_subscription_id'), lines 260-269: the tables after it
UpsertSubscription(tables, subscription_id) ==
    [tables EXCEPT !.subscriptions =
        {row \in @ : row.stripe_subscription_id # subscription_id}
            \cup {Subscription(subscription_id, "active")}]

\* table('user_profiles').update(values).eq('id', user_id): the tables after it
UpdateProfile(tables, user_id, values) ==
    IF tables.user_profiles[user_id] = <<>> THEN tables
    ELSE [tables EXCEPT !.user_profiles[user_id] = <<values>>]

\* lines 280-288: the compensating update in the except block, which swallows its
\* own failure; original_state is the rows read at line 234 (none: None); the
\* tables after it
Compensate(tables, user_id, original_state, outcome) ==
    IF original_state # <<>> /\ outcome = "ok"
    THEN UpdateProfile(tables, user_id, original_state[1])
    ELSE tables

\* the number of compensating updates sent, none when original_state is None
Compensations(original_state, n) == IF original_state = <<>> THEN 0 ELSE n

\* lines 245-288: the try block, entered with the original state read and the Stripe
\* retrieve done after `retrieved` attempts
UpdateAndUpsert(tables, session, sc, retrieved) ==
    LET user_id == session.user_id
        original_state == tables.user_profiles[user_id]
        update == sc.update
        updated == UpdateProfile(tables, user_id, Profile(session.tier, TRUE))
        has_row == original_state # <<>> /\ sc.update_rows
        upsert == sc.upsert
        upserted == UpsertSubscription(updated, session.subscription_id)
    IN IF update.raised
       THEN Handled(Compensate(tables, user_id, original_state, sc.rollback[1]),
                    TRUE, "update failed", retrieved,
                    update.made + Compensations(original_state, 1), 0)
       ELSE IF ~has_row
       THEN Handled(Compensate(updated, user_id, original_state, sc.rollback[1]),
                    TRUE, "Failed to update user_profiles", retrieved,
                    update.made + Compensations(original_state, 1), 0)
       ELSE IF upsert.raised
       THEN Handled(Compensate(updated, user_id, original_state, sc.rollback[1]),
                    TRUE, "upsert failed", retrieved,
                    update.made + Compensations(original_state, 1), upsert.made)
       ELSE IF ~sc.upsert_rows
       THEN \* lines 272-276: a first rollback outside any handler, then the except block
            Handled(Compensate(Compensate(upserted, user_id, original_state,
                                          sc.rollback[1]),
                               user_id, original_state, sc.rollback[2]),
                    TRUE,
                    IF sc.rollback[1] = "ok" THEN "Failed to create subscription record"
                    ELSE "rollback failed",
                    retrieved, update.made + Compensations(original_state, 2),
                    upsert.made)
       ELSE Handled(upserted, FALSE, "Subscription activated", retrieved, update.made,
                    upsert.made)

\* _handle_checkout_completed(payload), lines 210-288
handle_checkout_completed(tables, session, sc) ==
    LET retrieve == sc.retrieve
    IN IF session.user_id = "" \/ session.tier = "" \/ session.subscription_id = ""
       THEN Handled(tables, TRUE, "Missing required metadata", 0, 0, 0)
       ELSE IF sc.lookup = "raise" THEN Handled(tables, TRUE, "lookup failed", 0, 0, 0)
       ELSE IF AlreadyProcessed(tables, session.subscription_id)
       THEN Handled(tables, FALSE, "Subscription already activated (idempotent)", 0, 0, 0)
       ELSE IF sc.profile_lookup = "raise"
       THEN Handled(tables, TRUE, "lookup failed", 0, 0, 0)
       ELSE IF retrieve.raised
       THEN Handled(tables, TRUE, "retrieve failed", retrieve.made, 0, 0)
       ELSE UpdateAndUpsert(tables, session, sc, retrieve.made)

\* the tables of a deployment: user123 without a row, on the free tier or already
\* on bronze, and sub_123 not recorded, active or past due
InitialTables ==
    { [user_profiles |-> [u \in {"user123"} |-> p], subscriptions |-> s] :
        p \in {<<>>, <<Profile("free", FALSE)>>, <<Profile("bronze", TRUE)>>},
        s \in {{}, {Subscription("sub_123", "active")},
                {Subscription("sub_123", "past_due")}} }

\* an earlier call keeps the subscription it was about and what it returned
Delivered(entry) ==
    [op |-> "checkout", subscription_id |-> entry.subscription_id,
     message |-> IF entry.message \in {"Subscription activated",
                                       "Subscription already activated (idempotent)"}
                 THEN entry.message ELSE "raised"]

InitFinance ==
    /\ db \in InitialTables
    /\ calls = <<>>
    /\ nodes = <<>> /\ node_heap = <<>>
    /\ edges = <<>> /\ edge_heap = <<>>
    /\ KernelIdle(3)
    /\ InitMM
    /\ classifier = "none"
    /\ guardian = NewGuardian
    /\ colony = "none"

\* one delivery of a checkout.session.completed webhook
HandleCheckout ==
    /\ Len(calls) < MaxCalls
    /\ \E i \in 1..Len(Sessions), j \in 1..Len(Scenarios) :
          LET r == handle_checkout_completed(db, Sessions[i], Scenarios[j])
          IN /\ db' = r.db
             /\ calls' = Append([k \in 1..Len(calls) |-> Delivered(calls[k])] \o <<>>,
                                [op |-> "checkout",
                                 subscription_id |-> Sessions[i].subscription_id,
                                 session |-> Sessions[i],
                                 scenario |-> Scenarios[j], before |-> db,
                                 raised |-> r.raised, message |-> r.message,
                                 stripe_calls |-> r.stripe_calls,
                                 profile_writes |-> r.profile_writes,
                                 subscription_writes |-> r.subscription_writes])
    /\ UNCHANGED <<graphVars, kernelVars, mmVars, classifier, guardian, colony>>

NextFinance == HandleCheckout

SpecFinance == InitFinance /\ [][NextFinance]_vars

----------------------------------------------------------------------------
(* FinanceBee claims *)

LastIsCheckout == Len(calls) > 0 /\ LastCall.op = "checkout"

\* the delivery is for a subscription id that already has a record
Redelivered ==
    /\ LastIsCheckout
    /\ LastCall.session.user_id # "" /\ LastCall.session.tier # ""
    /\ \E row \in LastCall.before.subscriptions :
          row.stripe_subscription_id = LastCall.session.subscription_id

\* C19: a checkout.session.completed webhook for a subscription id that already has
\* a record in subscriptions changes neither table, sends no update to
\* user_profiles, no upsert to subscriptions and no call to Stripe, and when the
\* lookup of the record answers it returns the "already activated (idempotent)"
\* message.
C19_RedeliveryIsIdempotent ==
    Redelivered =>
        /\ db = LastCall.before
        /\ LastCall.profile_writes = 0
        /\ LastCall.subscription_writes = 0
        /\ LastCall.stripe_calls = 0
        /\ LastCall.scenario.lookup = "ok" =>
              /\ ~LastCall.raised
              /\ LastCall.message = "Subscription already activated (idempotent)"

\* a webhook activated the subscription and was then delivered twice more
C19_ActivatedThenRedelivered ==
    /\ Len(calls) = 3
    /\ calls[1].message = "Subscription activated"
    /\ calls[2].subscription_id = calls[1].subscription_id
    /\ calls[2].message = "Subscription already activated (idempotent)"
    /\ Redelivered
    /\ LastCall.subscription_id = calls[1].subscription_id
    /\ LastCall.message = "Subscription already activated (idempotent)"

\* the handler failed after it had sent the profile update
FailedAfterUpdate ==
    /\ LastIsCheckout
    /\ LastCall.raised
    /\ LastCall.profile_writes > 0

\* C20: when the handler fails after it has updated the user profile, the user's
\* subscription_tier and is_premium are what they were before the handler ran and
\* the error is raised to the caller.
C20_FailureRestoresProfile ==
    FailedAfterUpdate =>
        db.user_profiles[LastCall.session.user_id]
            = LastCall.before.user_profiles[LastCall.session.user_id]

----------------------------------------------------------------------------
(* The edge list and the loop of the kernel run, checked under SpecKernel *)

NotSemantic(e) == e.edge_type # "semantic"

\* the semantic edge objects of the graph: their references
SemanticRefs(heap, refs) == {refs[i] : i \in {k \in 1..Len(refs) : heap[refs[k]].edge_type = "semantic"}}

\* a pass of the loop body that reaches the rewiring step
RewiringStep == pc = "loop" /\ ~CrossRaises(embeddings, dim)

\* C23: the non-semantic edges of the graph (count, order, endpoints, weights, types)
\* are, after any number of cycles, those of the graph given; each rewiring step
\* removes every semantic edge that was there; and the kernel never adds or removes
\* a node.
C23_OnlySemanticEdgesRewritten ==
    /\ [](SelectSeq(Deref(edge_heap, edges), NotSemantic) = SelectSeq(edges0, NotSemantic))
    /\ [][/\ nodes' = nodes
          /\ Len(node_heap') = Len(node_heap)
          /\ RewiringStep =>
                SemanticRefs(edge_heap', edges') \cap SemanticRefs(edge_heap, edges) = {}]_vars

\* a run of several cycles on a graph of resonance and semantic edges has returned
C23_ResonanceKeptSemanticReplaced ==
    /\ pc = "done"
    /\ cycle > 1
    /\ Len(nodes) >= 2
    /\ edges0 = AllPairs(Len(nodes), 850, "resonance") \o AllPairs(Len(nodes), 500, "semantic")
    /\ SelectSeq(Deref(edge_heap, edges), NotSemantic) = AllPairs(Len(nodes), 850, "resonance")
    /\ SemanticRefs(edge_heap, edges) # {}

----------------------------------------------------------------------------
(* _compute_clustering_coefficient called on its own: a graph of up to MaxNodes + 1
   nodes, structural edges between any of its pairs, each edge once or twice *)

\* the edges of weight 1.0 between the pairs of P, in pair order
EdgesOfPairs(N, P) ==
    LET Chosen(p) == p \in P
        ps == SelectSeq(PairsFrom(1, 2, N), Chosen)
    IN AsTuple([n \in 1..Len(ps) |->
                   Edge(NodeIds[ps[n][1]], NodeIds[ps[n][2]], Scale, "structural")])

\* every simple graph on N nodes, and the same with every edge doubled
ClusteringEdgeLists(N) ==
    {EdgesOfPairs(N, P) : P \in SUBSET UnorderedPairs(N)}
        \cup {EdgesOfPairs(N, P) \o EdgesOfPairs(N, P) : P \in SUBSET UnorderedPairs(N)}

InitClustering ==
    \E N \in 0..(MaxNodes + 1) :
      \E es \in ClusteringEdgeLists(N) :
        /\ node_heap = [i \in 1..N |-> [id |-> NodeIds[i], position |-> UnitVectors(3)[1],
                                        activation |-> SeededActivation]]
        /\ nodes = [i \in 1..N |-> [id |-> NodeIds[i], ref |-> i]]
        /\ edge_heap = es
        /\ edges = [i \in 1..Len(es) |-> i]
        /\ KernelIdle(3)
        /\ InitMM
        /\ ColonyIdle
        /\ calls = <<[op |-> "compute_clustering_coefficient", returned |-> FALSE,
                      value |-> 0]>>

\* _compute_clustering_coefficient(graph), lines 701-736
ComputeClusteringCoefficient ==
    /\ pc = "idle"
    /\ Len(calls) = 1
    /\ calls[1].op = "compute_clustering_coefficient"
    /\ ~calls[1].returned
    /\ calls' = [calls EXCEPT
                    ![1].returned = TRUE,
                    ![1].value = compute_clustering_coefficient(nodes,
                                                                Deref(edge_heap, edges))]
    /\ UNCHANGED <<graphVars, mmVars, kernelVars, colonyVars>>

NextClustering == ComputeClusteringCoefficient

SpecClustering == InitClustering /\ [][NextClustering]_vars

ClusteringReturned ==
    Len(calls) = 1 /\ calls[1].op = "compute_clustering_coefficient" /\ calls[1].returned

\* the edges that give node id a neighbour: incident to it, the other end a node
NeighbourEdges(id) ==
    LET es == Deref(edge_heap, edges)
    IN {n \in 1..Len(es) :
          \/ es[n].source_id = id /\ es[n].target_id \in Ids(nodes)
          \/ es[n].source_id # id /\ es[n].target_id = id /\ es[n].source_id \in Ids(nodes)}

OtherEnd(n, id) ==
    LET e == edge_heap[edges[n]]
    IN IF e.source_id = id THEN e.target_id ELSE e.source_id

NeighbourPairs(id) == {p \in NeighbourEdges(id) \X NeighbourEdges(id) : p[1] < p[2]}

\* the fraction of the neighbour pairs of node id that are joined by an edge
ConnectedFraction(id) ==
    LET joined == {p \in NeighbourPairs(id) :
                      Connected(Deref(edge_heap, edges), OtherEnd(p[1], id),
                                OtherEnd(p[2], id))}
    IN RDiv(Cardinality(joined) * Scale, Cardinality(NeighbourPairs(id)))

\* the nodes that have at least 2 neighbours
CountedNodes == {i \in 1..Len(nodes) : Cardinality(NeighbourEdges(nodes[i].id)) >= 2}

SumOfFractions ==
    SumSeq(AsTuple([i \in 1..Len(nodes) |->
                       IF i \in CountedNodes THEN ConnectedFraction(nodes[i].id) ELSE 0]))

\* C24: clustering_coefficient is the average, over the nodes that have at least 2
\* neighbours, of the fraction of the node's neighbour pairs that are joined by an
\* edge; it is 0 for a graph of fewer than 3 nodes and lies in [0, 1].
C24_AverageOverNodesWithTwoNeighbours ==
    ClusteringReturned =>
        /\ calls[1].value >= 0 /\ calls[1].value <= Scale
        /\ Len(nodes) < 3 => calls[1].value = 0
        /\ (Len(nodes) >= 3 /\ CountedNodes # {}) =>
              calls[1].value = RDiv(SumOfFractions, Cardinality(CountedNodes))

\* C24, as the code computes it: the fractions of the nodes that have at least 2
\* neighbours are added up and the sum is divided by the number of all the nodes
\* of the graph; 0 for a graph of fewer than 3 nodes, and always in [0, 1].
C24_SumOverCountedDividedByAllNodes ==
    ClusteringReturned =>
        /\ calls[1].value >= 0 /\ calls[1].value <= Scale
        /\ Len(nodes) < 3 => calls[1].value = 0
        /\ Len(nodes) >= 3 => calls[1].value = RDiv(SumOfFractions, Len(nodes))

\* a triangle and a fourth node of no neighbour: 0.75, where the mean over the
\* three nodes of the triangle is 1.0
C24_TriangleAndIsolatedNode ==
    /\ ClusteringReturned
    /\ Len(nodes) = 4
    /\ Cardinality(CountedNodes) = 3
    /\ SumOfFractions = 3 * Scale
    /\ calls[1].value = 750

\* the positions of the kernel in which NextKernel can take a step
KernelCanStep == pc \in {"loop", "metrics"}

\* the scheduling of the kernel: a call that can take a step takes it. This is
\* WF_vars(NextKernel), with ENABLED <<NextKernel>>_vars written as KernelCanStep
SpecKernelFair == SpecKernel /\ ([]<>~KernelCanStep \/ []<><<NextKernel>>_vars)

\* the passes of the loop body that ran to their end
ExecutedCycles == IF broke THEN cycle + 1 ELSE cycle

\* C28: the kernel terminates (it returns or raises) after at most `cycles` cycles;
\* energy_history holds one entry per executed cycle: convergence_cycle + 1 entries
\* when converged, `cycles` entries otherwise, none when cycles <= 0; and an early
\* stop never happens at a cycle index below 6.
C28_TerminatesOneEntryPerCycle ==
    /\ <>(pc \in {"done", "error"})
    /\ [](/\ ExecutedCycles <= Max2(cycles, 0)
          /\ pc # "error" => Len(energy_history) = ExecutedCycles
          /\ cycles <= 0 => energy_history = <<>>
          /\ broke => cycle >= 6
          /\ pc = "done" =>
                /\ metrics.energy_history = energy_history
                /\ metrics.converged =>
                      Len(metrics.energy_history) = metrics.convergence_cycle + 1
                /\ ~metrics.converged => Len(metrics.energy_history) = Max2(cycles, 0))

\* a run stopped early at cycle 6, with 7 energies
C28_StoppedAtCycleSix ==
    /\ pc = "done"
    /\ metrics.converged
    /\ metrics.convergence_cycle = 6
    /\ Len(metrics.energy_history) = 7
    /\ cycles = MaxCycles

\* the cycle whose rewiring step ran last: the cycle of the break or of the failing
\* energy computation, else the one before the cycle to run next
LastRewiredCycle ==
    IF broke \/ error = "StopIteration" THEN cycle ELSE cycle - 1

\* C29: after every cycle the semantic edges of the graph are those created by that
\* cycle's rewiring: the newest edge objects, at most one per unordered pair of
\* distinct nodes (so at most N(N-1)/2), no self-loop, both ends nodes of the
\* graph, each weight strictly greater than the cycle's threshold; and no semantic
\* edge of the graph given is left.
C29_SemanticEdgesAreThisCyclesOnes ==
    (pc # "idle" /\ LastRewiredCycle >= 0) =>
        LET es == Deref(edge_heap, edges)
            sem == SemanticRefs(edge_heap, edges)
            N == Len(nodes)
        IN /\ sem = (Len(edge_heap) - Cardinality(sem) + 1)..Len(edge_heap)
           /\ \A r \in sem : r > Len(edges0)
           /\ 2 * Cardinality(sem) <= N * (N - 1)
           /\ \A n \in 1..Len(es) :
                es[n].edge_type = "semantic" =>
                    /\ es[n].source_id # es[n].target_id
                    /\ es[n].source_id \in Ids(nodes)
                    /\ es[n].target_id \in Ids(nodes)
                    /\ es[n].weight > Threshold(LastRewiredCycle)
                    /\ Cardinality(SemanticBetween(es, es[n].source_id,
                                                   es[n].target_id)) = 1

\* a run on the all-pairs 0.5 topology has returned with semantic edges of its own
C29_StartingTopologyReplaced ==
    /\ pc = "done"
    /\ Len(nodes) >= 2
    /\ edges0 = AllPairs(Len(nodes), 500, "semantic")
    /\ LastRewiredCycle >= 1
    /\ SemanticRefs(edge_heap, edges) # {}
    /\ \A n \in 1..Len(edges) : edge_heap[edges[n]].weight > 500

----------------------------------------------------------------------------
(* The two rewiring implementations, checked under SpecRewire *)

RewiredByEither == Len(calls) = 1 /\ calls[1].op \in RewireOps /\ calls[1].returned

\* the edge list the other implementation leaves on the graph given
EdgesLeftByTheOther ==
    LET given == calls[1].given
        refs == AsTuple([i \in 1..Len(given) |-> i])
        rw == IF calls[1].op = "dynamic_rewire"
              THEN rewire_graph(nodes, given, refs, calls[1].similarities,
                                calls[1].threshold)
              ELSE dynamic_rewire(nodes, given, refs, calls[1].similarities,
                                  calls[1].threshold)
    IN Deref(rw.heap, rw.edges)

\* C30: OrbitalEmbedder._rewire_graph and _dynamic_rewire are equivalent: on the same
\* graph, similarity matrix and threshold they leave the same edge list, for every
\* graph, those holding edges of a type that is none of structural, semantic,
\* resonance included.
C30_RewiringsEquivalent ==
    RewiredByEither => Deref(edge_heap, edges) = EdgesLeftByTheOther

----------------------------------------------------------------------------
(* FinanceBee._execute_with_retry called on its own: a func that returns or raises
   at each call, max_retries from 0, base_delay 1 or 2 seconds *)

\* what a call of func can do
FuncOutcomes ==
    {Returns, Raises(TemporaryFailure), Raises(InvalidUserId), Raises(ResourceNotFound),
     Raises(PermissionForbidden)}

\* base_delay=1 and another
BaseDelays == {1, 2}

InitRetry ==
    \E attempts \in [1..MaxCalls -> FuncOutcomes], m \in 0..MaxCalls, d \in BaseDelays :
        /\ calls = <<[op |-> "execute_with_retry", attempts |-> AsTuple(attempts),
                      max_retries |-> m, base_delay |-> d, returned |-> FALSE]>>
        /\ db = "none"
        /\ nodes = <<>> /\ node_heap = <<>>
        /\ edges = <<>> /\ edge_heap = <<>>
        /\ KernelIdle(3)
        /\ InitMM
        /\ classifier = "none"
        /\ guardian = "none"
        /\ colony = "none"

\* self._execute_with_retry(func, max_retries, base_delay), lines 49-86
ExecuteWithRetry ==
    /\ Len(calls) = 1
    /\ calls[1].op = "execute_with_retry"
    /\ ~calls[1].returned
    /\ calls' = Append([calls EXCEPT ![1].returned = TRUE],
                       execute_with_retry(calls[1].attempts, calls[1].max_retries,
                                          calls[1].base_delay))
    /\ UNCHANGED <<graphVars, mmVars, kernelVars, colonyVars>>

NextRetry == ExecuteWithRetry

SpecRetry == InitRetry /\ [][NextRetry]_vars

RetryReturned == Len(calls) = 2 /\ calls[1].op = "execute_with_retry"

\* the message holds one of the four terms, whatever the case of its letters
HoldsTerm(message) ==
    \E i \in 1..Len(message), term \in non_retryable :
        /\ i + Len(term) - 1 <= Len(message)
        /\ \A j \in 1..Len(term) : Lower(message[i + j - 1]) = term[j]

\* the first call of func, among the first max_retries, that ends the retrying: it
\* returns, or raises an error that is not retried, or is the last one allowed
LastAttempt ==
    LET a == calls[1].attempts
        m == calls[1].max_retries
        ending == {i \in 1..m : ~a[i].raises \/ HoldsTerm(a[i].message) \/ i = m}
    IN CHOOSE i \in ending : \A k \in ending : i <= k

\* C25: _execute_with_retry calls func at most max_retries times and returns the
\* result of the first call that succeeds; after the k-th failed attempt
\* (k = 0, 1, ...) it waits base_delay * 2^k before the next attempt; an error
\* whose message holds 'invalid', 'not found', 'unauthorized' or 'forbidden' is
\* re-raised at once; after max_retries failed attempts the last error is
\* re-raised; so the caller always gets a result of func or an exception.
C25_RetryContract ==
    RetryReturned =>
        LET a == calls[1].attempts
            r == calls[2]
        IN /\ r.made <= calls[1].max_retries
           /\ r.raised \/ r.returned = "result"
           /\ calls[1].max_retries >= 1 =>
                /\ r.made = LastAttempt
                /\ r.raised = a[LastAttempt].raises
                /\ r.raised => r.error = a[LastAttempt].message
                /\ r.slept = AsTuple([k \in 1..(r.made - 1) |->
                                         calls[1].base_delay * 2 ^ (k - 1)])

\* C25 for max_retries >= 1, where it holds
C25_RetryContractFromOne ==
    (RetryReturned /\ calls[1].max_retries >= 1) => C25_RetryContract

----------------------------------------------------------------------------
(* FinanceBee._handle_subscription_deleted *)

\* table('subscriptions').update({'status': status}).eq('stripe_subscription_id', id)
UpdateStatus(tables, subscription_id, status) ==
    [tables EXCEPT !.subscriptions =
        {IF row.stripe_subscription_id = subscription_id
         THEN Subscription(subscription_id, status) ELSE row : row \in @}]

\* lines 332-337: the subscription is marked canceled
Cancel(tables, subscription_id) == UpdateStatus(tables, subscription_id, "canceled")

\* a scenario of the deletion: the outcome of the profile lookup, of the retried
\* status update and profile update, whether the profile update returns the row it
\* wrote, and the outcome of the status revert and of the profile rollback
CancelScenario(profile_lookup, cancel, update, update_rows, revert, rollback) ==
    [profile_lookup |-> profile_lookup, cancel |-> execute_with_retry(cancel, 3, 1),
     update |-> execute_with_retry(update, 3, 1), update_rows |-> update_rows,
     revert |-> revert, rollback |-> rollback]

CancelScenarios ==
    << CancelScenario("ok", AlwaysOk, AlwaysOk, TRUE, "ok", "ok"),
       CancelScenario("raise", AlwaysOk, AlwaysOk, TRUE, "ok", "ok"),
       CancelScenario("ok", NeverOk, AlwaysOk, TRUE, "ok", "ok"),
       CancelScenario("ok", OkOnRetry, NeverOk, TRUE, "ok", "ok"),
       CancelScenario("ok", AlwaysOk, NotRetried, TRUE, "ok", "ok"),
       CancelScenario("ok", AlwaysOk, AlwaysOk, FALSE, "ok", "ok"),
       CancelScenario("ok", AlwaysOk, AlwaysOk, FALSE, "raise", "ok"),
       CancelScenario("ok", AlwaysOk, AlwaysOk, FALSE, "ok", "raise"),
       CancelScenario("ok", AlwaysOk, NeverOk, TRUE, "ok", "raise") >>

\* subscription['metadata'].get('userId') and subscription['id']
Deletions ==
    << [user_id |-> "user123", subscription_id |-> "sub_123"],
       [user_id |-> "user123", subscription_id |-> "sub_456"],
       [user_id |-> "", subscription_id |-> "sub_123"] >>

\* _handle_subscription_deleted(payload), lines 314-365
handle_subscription_deleted(tables, subscription, sc) ==
    LET user_id == subscription.user_id
        original_state == tables.user_profiles[user_id]
        canceled == Cancel(tables, subscription.subscription_id)
        updated == UpdateProfile(canceled, user_id, Profile("None", FALSE))
        has_row == original_state # <<>> /\ sc.update_rows
        reverted == IF sc.revert = "ok"
                    THEN UpdateStatus(updated, subscription.subscription_id, "active")
                    ELSE updated
    IN IF user_id = ""
       THEN Handled(tables, FALSE, "Subscription deleted but missing userId", 0, 0, 0)
       ELSE IF sc.profile_lookup = "raise"
       THEN Handled(tables, TRUE, "lookup failed", 0, 0, 0)
       ELSE IF sc.cancel.raised
       THEN Handled(Compensate(tables, user_id, original_state, sc.rollback), TRUE,
                    "cancel failed", 0, Compensations(original_state, 1), sc.cancel.made)
       ELSE IF sc.update.raised
       THEN Handled(Compensate(canceled, user_id, original_state, sc.rollback), TRUE,
                    "update failed", 0,
                    sc.update.made + Compensations(original_state, 1), sc.cancel.made)
       ELSE IF ~has_row
       THEN Handled(Compensate(reverted, user_id, original_state, sc.rollback), TRUE,
                    IF sc.revert = "ok" THEN "Failed to update user profile"
                    ELSE "revert failed",
                    0, sc.update.made + Compensations(original_state, 1),
                    sc.cancel.made + 1)
       ELSE Handled(updated, FALSE, "Subscription canceled", 0, sc.update.made,
                    sc.cancel.made)

InitCancel ==
    /\ db \in InitialTables
    /\ calls = <<>>
    /\ nodes = <<>> /\ node_heap = <<>>
    /\ edges = <<>> /\ edge_heap = <<>>
    /\ KernelIdle(3)
    /\ InitMM
    /\ classifier = "none"
    /\ guardian = NewGuardian
    /\ colony = "none"

\* one delivery of a customer.subscription.deleted webhook
HandleSubscriptionDeleted ==
    /\ Len(calls) < MaxCalls
    /\ \E i \in 1..Len(Deletions), j \in 1..Len(CancelScenarios) :
          LET r == handle_subscription_deleted(db, Deletions[i], CancelScenarios[j])
          IN /\ db' = r.db
             /\ calls' = Append([k \in 1..Len(calls) |-> Delivered(calls[k])] \o <<>>,
                                [op |-> "deleted",
                                 subscription_id |-> Deletions[i].subscription_id,
                                 session |-> Deletions[i],
                                 scenario |-> CancelScenarios[j], before |-> db,
                                 raised |-> r.raised, message |-> r.message,
                                 stripe_calls |-> r.stripe_calls,
                                 profile_writes |-> r.profile_writes,
                                 subscription_writes |-> r.subscription_writes])
    /\ UNCHANGED <<graphVars, kernelVars, mmVars, classifier, guardian, colony>>

NextCancel == HandleSubscriptionDeleted

SpecCancel == InitCancel /\ [][NextCancel]_vars

\* the deletion failed after the subscription had been marked canceled
FailedAfterCancel ==
    /\ Len(calls) > 0
    /\ LastCall.op = "deleted"
    /\ LastCall.raised
    /\ ~LastCall.scenario.cancel.raised

\* C27: when _handle_subscription_deleted fails after the subscription was marked
\* canceled (the profile update raises or affects no row), the subscription status
\* and the user's subscription_tier and is_premium are what they were before the
\* handler ran.
C27_FailedDeletionRestoresBoth ==
    FailedAfterCancel => db = LastCall.before

----------------------------------------------------------------------------
(* FinanceBee._handle_checkout_completed run by several workers at once: each
   worker is a bee handling a delivery of the same checkout.session.completed
   webhook, and every Supabase or Stripe call of the handler is one step, so the
   reads and writes of the workers interleave.  colony is [before, workers]: the
   tables before the deliveries and, for each worker, where it is in the handler
   (pc), the original_state it read, the number of compensating updates it sent and
   the scenario that names the outcome of its calls. *)

Workers == {1, 2}

\* the webhook delivered to every worker
Delivery == Session("user123", "gold", "sub_123")

\* a worker entering the handler with scenario j
Entering(j) == [pc |-> "lookup", original_state |-> <<>>, compensated |-> 0, scenario |-> j]

WorkerScenario(w) == Scenarios[colony.workers[w].scenario]

\* worker w moves to pc
Goto(w, pc_) == colony' = [colony EXCEPT !.workers[w].pc = pc_]

InitConcurrent ==
    /\ db \in InitialTables
    /\ \E scenario \in [Workers -> 1..Len(Scenarios)] :
          colony = [before |-> db, workers |-> [w \in Workers |-> Entering(scenario[w])]]
    /\ calls = <<>>
    /\ nodes = <<>> /\ node_heap = <<>>
    /\ edges = <<>> /\ edge_heap = <<>>
    /\ KernelIdle(3)
    /\ InitMM
    /\ classifier = "none"
    /\ guardian = NewGuardian

\* lines 228-231: the idempotency lookup
CheckoutLookup(w) ==
    /\ colony.workers[w].pc = "lookup"
    /\ UNCHANGED <<graphVars, kernelVars, mmVars, classifier, guardian, db, calls>>
    /\ IF WorkerScenario(w).lookup = "raise" THEN Goto(w, "raised")
       ELSE IF AlreadyProcessed(db, Delivery.subscription_id) THEN Goto(w, "idempotent")
       ELSE Goto(w, "profile_lookup")

\* lines 234-235: original_state is the row of the user as it is now
CheckoutReadOriginal(w) ==
    /\ colony.workers[w].pc = "profile_lookup"
    /\ UNCHANGED <<graphVars, kernelVars, mmVars, classifier, guardian, db, calls>>
    /\ IF WorkerScenario(w).profile_lookup = "raise" THEN Goto(w, "raised")
       ELSE colony' = [colony EXCEPT !.workers[w].pc = "retrieve",
                                     !.workers[w].original_state =
                                         db.user_profiles[Delivery.user_id]]

\* lines 238-243: the Stripe retrieve, outside the try block
CheckoutRetrieve(w) ==
    /\ colony.workers[w].pc = "retrieve"
    /\ UNCHANGED <<graphVars, kernelVars, mmVars, classifier, guardian, db, calls>>
    /\ IF WorkerScenario(w).retrieve.raised THEN Goto(w, "raised")
       ELSE Goto(w, "update")

\* lines 247-256: the profile update and the check of the rows it returned
CheckoutUpdate(w) ==
    /\ colony.workers[w].pc = "update"
    /\ UNCHANGED <<graphVars, kernelVars, mmVars, classifier, guardian, calls>>
    /\ IF WorkerScenario(w).update.raised
       THEN db' = db /\ Goto(w, "except")
       ELSE /\ db' = UpdateProfile(db, Delivery.user_id, Profile(Delivery.tier, TRUE))
            /\ IF db.user_profiles[Delivery.user_id] # <<>> /\ WorkerScenario(w).update_rows
               THEN Goto(w, "upsert")
               ELSE Goto(w, "except")

\* lines 259-272: the upsert and the check of the rows it returned
CheckoutUpsert(w) ==
    /\ colony.workers[w].pc = "upsert"
    /\ UNCHANGED <<graphVars, kernelVars, mmVars, classifier, guardian, calls>>
    /\ IF WorkerScenario(w).upsert.raised
       THEN db' = db /\ Goto(w, "except")
       ELSE /\ db' = UpsertSubscription(db, Delivery.subscription_id)
            /\ IF WorkerScenario(w).upsert_rows
               THEN Goto(w, "activated")
               ELSE Goto(w, "rollback")

\* lines 273-276: the rollback sent when the upsert returned no rows; what it raises,
\* its own failure or the RuntimeError of line 276, is caught at line 280
CheckoutRollback(w) ==
    /\ colony.workers[w].pc = "rollback"
    /\ UNCHANGED <<graphVars, kernelVars, mmVars, classifier, guardian, calls>>
    /\ db' = Compensate(db, Delivery.user_id, colony.workers[w].original_state,
                        WorkerScenario(w).rollback[1])
    /\ colony' = [colony EXCEPT !.workers[w].pc = "except",
                                !.workers[w].compensated =
                                    Compensations(colony.workers[w].original_state, 1)]

\* lines 280-288: the compensating update of the except block, then the error is
\* raised again
CheckoutExcept(w) ==
    /\ colony.workers[w].pc = "except"
    /\ UNCHANGED <<graphVars, kernelVars, mmVars, classifier, guardian, calls>>
    /\ db' = Compensate(db, Delivery.user_id, colony.workers[w].original_state,
                        WorkerScenario(w).rollback[colony.workers[w].compensated + 1])
    /\ Goto(w, "raised")

NextConcurrent ==
    \E w \in Workers :
        \/ CheckoutLookup(w)
        \/ CheckoutReadOriginal(w)
        \/ CheckoutRetrieve(w)
        \/ CheckoutUpdate(w)
        \/ CheckoutUpsert(w)
        \/ CheckoutRollback(w)
        \/ CheckoutExcept(w)

SpecConcurrent == InitConcurrent /\ [][NextConcurrent]_vars

\* every worker has returned or raised
AllHandled == \A w \in Workers : colony.workers[w].pc \in {"activated", "idempotent", "raised"}

\* the deliveries found the subscription not recorded and the user on the free tier
FreshCheckout ==
    /\ colony.before.subscriptions = {}
    /\ colony.before.user_profiles[Delivery.user_id] = <<Profile("free", FALSE)>>

ActiveRecords == {row \in db.subscriptions : row = Subscription(Delivery.subscription_id, "active")}

\* C26: when the workers have all handled the webhook of a subscription that was
\* not recorded, subscriptions holds at most one record of it, and an active record
\* of it exists exactly when the profile of the user is premium with the purchased
\* tier.
C26_ConcurrentCheckoutsConsistent ==
    (AllHandled /\ FreshCheckout) =>
        /\ Cardinality({row \in db.subscriptions :
                           row.stripe_subscription_id = Delivery.subscription_id}) <= 1
        /\ ActiveRecords # {}
              <=> db.user_profiles[Delivery.user_id] = <<Profile(Delivery.tier, TRUE)>>

----------------------------------------------------------------------------
(* FinanceBee.start: the event loop.  colony is [pc, process]: where the loop is
   (about to poll, at the Guardian check, at the dispatch on the function name) and
   the process it was assigned.  calls holds one entry per assigned process: what
   the Guardian said, whether validate_revenue was called and how it ended, and
   what was reported to the Colony server.  A poll that times out raises "no
   processes" and the loop polls again: it changes nothing and is left out. *)

\* json.loads(payload_json), line 180; a payload_json that is no str raises TypeError
LoadPayload(payload_json) ==
    IF payload_json.kind # "str" THEN [raised |-> TRUE, value |-> None]
    ELSE json_loads(payload_json.text)

\* the names the tables use for the str values of a session
NameOf(v) ==
    IF v = Str(User123) THEN "user123"
    ELSE IF v = Str(Bronze) THEN "bronze"
    ELSE IF v = Str(Sub123) THEN "sub_123"
    ELSE ""

\* lines 219-222: the session of a checkout event the Guardian found valid
SessionOf(payload) ==
    LET session == payload.items.data.items.object.items
    IN Session(NameOf(session.metadata.items.userId), NameOf(session.metadata.items.tier),
               NameOf(session.subscription))

Revenue(tables, raised) == [db |-> tables, raised |-> raised]

\* validate_revenue(payload_json), lines 165-208, on the tables: the tables after it
\* and whether it raised.  A payload that is no dict never passes line 183-185: the
\* Guardian returns invalid or raises TypeError, and both end in RuntimeError
validate_revenue(tables, payload_json, sc) ==
    LET parsed == LoadPayload(payload_json)
    IN IF parsed.raised \/ ~Subscriptable(parsed.value) THEN Revenue(tables, TRUE)
       ELSE LET checked == validate_stripe_payload(parsed.value)
            IN IF checked.raised \/ ~checked.is_valid THEN Revenue(tables, TRUE)
               ELSE IF IsCheckout(parsed.value.items.type)
               THEN LET handled == handle_checkout_completed(tables, SessionOf(parsed.value), sc)
                    IN Revenue(handled.db, handled.raised)
               ELSE Revenue(tables, FALSE)

\* the processes the Colony server assigns: the tasks given to the Guardian, and
\* validate_revenue on the JSON text of an event with no handler and of a checkout
Processes ==
    Tasks \o << Task("validate_revenue", <<Str(JsonInvoicePaid)>>),
                Task("validate_revenue", <<Str(JsonCheckout)>>) >>

\* the entry of a process just assigned
Assigned(processid) ==
    [op |-> "process", processid |-> processid, blocked |-> FALSE, unknown |-> FALSE,
     executed |-> FALSE, outcome |-> "none", report |-> "none"]

\* the entry of the process in hand becomes entry
Noted(entry) == [calls EXCEPT ![Len(calls)] = entry]

Polling == [pc |-> "assign", process |-> <<>>]

InitEventLoop ==
    /\ db \in InitialTables
    /\ colony = Polling
    /\ calls = <<>>
    /\ nodes = <<>> /\ node_heap = <<>>
    /\ edges = <<>> /\ edge_heap = <<>>
    /\ KernelIdle(3)
    /\ InitMM
    /\ classifier = "none"
    /\ guardian = NewGuardian

\* lines 378-387: colonies.assign returns a process
Assign ==
    /\ colony.pc = "assign"
    /\ Len(calls) < MaxCalls
    /\ \E i \in 1..Len(Processes) :
          colony' = [pc |-> "guardian", process |-> <<Processes[i]>>]
    /\ calls' = Append(calls, Assigned(Len(calls) + 1))
    /\ UNCHANGED <<graphVars, kernelVars, mmVars, classifier, guardian, db>>

\* lines 389-405: the Guardian check; a blocked task is reported failed, an
\* exception from the Guardian is caught at line 438 and nothing is reported
GuardianCheck ==
    /\ colony.pc = "guardian"
    /\ UNCHANGED <<graphVars, kernelVars, mmVars, classifier, db>>
    /\ LET process == colony.process[1]
           r == validate_task(guardian, process.funcname, process.args)
       IN /\ guardian' = r.guardian
          /\ IF r.raised THEN colony' = Polling /\ calls' = calls
             ELSE IF ~r.is_safe
             THEN /\ colony' = Polling
                  /\ calls' = Noted([LastCall EXCEPT !.blocked = TRUE, !.report = "fail"])
             ELSE /\ colony' = [colony EXCEPT !.pc = "execute"]
                  /\ calls' = calls

\* lines 407-444: the dispatch on the function name.  validate_revenue returning is
\* reported with close, an unknown function with fail; validate_revenue raising
\* (or args[0] of no argument) is caught at line 438, which logs, sleeps and
\* polls again
Execute ==
    /\ colony.pc = "execute"
    /\ UNCHANGED <<graphVars, kernelVars, mmVars, classifier, guardian>>
    /\ colony' = Polling
    /\ LET process == colony.process[1]
       IN IF process.funcname # "validate_revenue"
          THEN /\ db' = db
               /\ calls' = Noted([LastCall EXCEPT !.unknown = TRUE, !.report = "fail"])
          ELSE IF process.args = <<>>
          THEN db' = db /\ calls' = Noted([LastCall EXCEPT !.outcome = "raised"])
          ELSE \E j \in 1..Len(Scenarios) :
                  LET r == validate_revenue(db, process.args[1], Scenarios[j])
                  IN /\ db' = r.db
                     /\ calls' = Noted([LastCall EXCEPT
                                           !.executed = TRUE,
                                           !.outcome = IF r.raised THEN "raised" ELSE "returned",
                                           !.report = IF r.raised THEN "none" ELSE "close"])

NextEventLoop == Assign \/ GuardianCheck \/ Execute

SpecEventLoop == InitEventLoop /\ [][NextEventLoop]_vars

\* the loop is done with process k: it polls again, or went on to a later process
DoneWith(k) == k < Len(calls) \/ colony.pc = "assign"

\* C21: every process the event loop was assigned is reported to the Colony server
\* before the loop polls again: closed exactly when validate_revenue returned, failed
\* otherwise (blocked by the Guardian, unknown function name, validate_revenue
\* raising), and a process the Guardian blocked is never executed.
C21_EveryProcessReported ==
    \A k \in 1..Len(calls) :
        /\ calls[k].blocked => ~calls[k].executed
        /\ DoneWith(k) =>
              /\ calls[k].report \in {"close", "fail"}
              /\ calls[k].report = "close" <=> calls[k].outcome = "returned"

----------------------------------------------------------------------------
(* Foreman.dispatch and the worker it routes to (DocBee.execute), one step per
   write to the tasks table.  colony is [pc, registry, tasks, task, task_id]: where
   the dispatch is, the roles that have a worker registered, the status of each
   record of the tasks table (its id is its index), the task being dispatched and
   the id of its record.  calls holds one entry per dispatch call: the id of the
   record it created (0 when it created none), what the worker did and how the
   dispatch ended.  The writes to the tasks table succeed. *)

\* the str summarize
Summarize ==
    <<"s", "u", "m", "m", "a", "r", "i", "z", "e">>

\* the str analyze
Analyze ==
    <<"a", "n", "a", "l", "y", "z", "e">>

\* task_role_map, lines 107-117
task_role_map ==
    [document_summary |-> "DocBee", document_analysis |-> "DocBee",
     content_generation |-> "DocBee", code_generation |-> "CodeBee",
     code_review |-> "CodeBee", visual_analysis |-> "VisionBee",
     image_processing |-> "VisionBee", data_analysis |-> "DataBee",
     analytics |-> "DataBee"]

\* _determine_worker_role(task_type), lines 96-119
determine_worker_role(task_type) ==
    IF task_type \in DOMAIN task_role_map THEN task_role_map[task_type] ELSE "DocBee"

\* payload.get(key, default), for a payload that is a dict
Get(payload, key, default) ==
    IF key \in DOMAIN payload.items THEN payload.items[key] ELSE default

\* _process_document(payload), lines 64-108: whether it raises.  payload.get raises
\* AttributeError unless the payload is a dict, and len(document_text) of the
\* summarize branch raises TypeError unless the text is a str, a list or a dict
ProcessDocumentRaises(payload) ==
    IF payload.kind # "dict" THEN TRUE
    ELSE LET document_text == Get(payload, "text", Str(<<>>))
             task_type == Get(payload, "task_type", Str(Summarize))
         IN task_type = Str(Summarize) /\ document_text.kind \notin {"str", "list", "dict"}

\* the payloads of the tasks: a text to summarize or to analyze, no task_type, a
\* text that is null, no payload
DocPayloads ==
    << Dict([task_type |-> Str(Summarize), text |-> Str(AnObject)]),
       Dict([task_type |-> Str(Analyze), text |-> None]),
       Dict([text |-> Str(AnObject)]),
       Dict([task_type |-> Str(Summarize), text |-> None]),
       Dict([text |-> IntValue]),
       None >>

TaskTypes == {"document_summary", "code_review", "visual_analysis", "translation"}

\* the registries register_worker has built: every worker is a DocBee
Registries == {{}, {"DocBee"}, {"DocBee", "CodeBee"}}

update_task_status_to_assigned(tasks, task_id, status) == [tasks EXCEPT ![task_id] = "assigned"]

\* table("tasks").update({"status": status}).eq("id", task_id), base.py lines 58-67
\* and foreman.py lines 63-66, 73-76, 88-91: the table after it
update_task_status(tasks, task_id, status) == [tasks EXCEPT ![task_id] = status]

Dispatching(task_id) ==
    [op |-> "dispatch", task_id |-> task_id, worker |-> "none", ended |-> "running"]

Waiting(registry, tasks) ==
    [pc |-> "idle", registry |-> registry, tasks |-> tasks, task |-> <<>>, task_id |-> 0]

InitDispatch ==
    /\ \E registry \in Registries : colony = Waiting(registry, <<>>)
    /\ calls = <<>>
    /\ db = "none"
    /\ nodes = <<>> /\ node_heap = <<>>
    /\ edges = <<>> /\ edge_heap = <<>>
    /\ KernelIdle(3)
    /\ InitMM
    /\ classifier = "none"
    /\ guardian = "none"

DispatchUnchanged == UNCHANGED <<graphVars, kernelVars, mmVars, classifier, guardian, db>>

\* foreman.py lines 40-56: the insert of the record, status 'pending'; when the
\* insert returns no row, ValueError is raised and the except block finds no task_id
InsertTask ==
    /\ colony.pc = "idle"
    /\ Len(calls) < MaxCalls
    /\ DispatchUnchanged
    /\ \E type \in TaskTypes, i \in 1..Len(DocPayloads), inserted \in BOOLEAN :
          IF inserted
          THEN /\ colony' = [colony EXCEPT !.pc = "route",
                                           !.tasks = Append(@, "pending"),
                                           !.task = <<[type |-> type, payload |-> DocPayloads[i]]>>,
                                           !.task_id = Len(colony.tasks) + 1]
               /\ calls' = Append(calls, Dispatching(Len(colony.tasks) + 1))
          ELSE /\ colony' = colony
               /\ calls' = Append(calls, [Dispatching(0) EXCEPT !.ended = "raised"])

\* foreman.py lines 58-76: no worker for the role: 'failed' and ValueError; a worker:
\* 'assigned'
Route ==
    /\ colony.pc = "route"
    /\ DispatchUnchanged
    /\ calls' = calls
    /\ IF determine_worker_role(colony.task[1].type) \notin colony.registry
       THEN colony' = [colony EXCEPT
                          !.pc = "except",
                          !.tasks = update_task_status(@, colony.task_id, "failed")]
       ELSE colony' = [colony EXCEPT
                          !.pc = "execute",
                          !.tasks = update_task_status(@, colony.task_id, "assigned")]

\* doc_bee.py lines 40-43: 'in_progress'
StartWork ==
    /\ colony.pc = "execute"
    /\ DispatchUnchanged
    /\ calls' = calls
    /\ colony' = [colony EXCEPT
                     !.pc = "process",
                     !.tasks = update_task_status(@, colony.task_id, "in_progress")]

\* doc_bee.py lines 45-52: the document is processed, 'completed', the result is
\* returned to the Foreman, which returns it (foreman.py lines 79-81)
Complete ==
    /\ colony.pc = "process"
    /\ ~ProcessDocumentRaises(colony.task[1].payload)
    /\ DispatchUnchanged
    /\ calls' = [calls EXCEPT ![Len(calls)].worker = "returned",
                              ![Len(calls)].ended = "returned"]
    /\ colony' = Waiting(colony.registry,
                         update_task_status(colony.tasks, colony.task_id, "completed"))

\* doc_bee.py lines 54-62: processing raised: 'failed', and the error is raised to
\* the Foreman
WorkerFails ==
    /\ colony.pc = "process"
    /\ ProcessDocumentRaises(colony.task[1].payload)
    /\ DispatchUnchanged
    /\ calls' = [calls EXCEPT ![Len(calls)].worker = "raised"]
    /\ colony' = [colony EXCEPT
                     !.pc = "except",
                     !.tasks = update_task_status(@, colony.task_id, "failed")]

\* foreman.py lines 83-94: the except block: 'failed', and the error is raised
DispatchFails ==
    /\ colony.pc = "except"
    /\ DispatchUnchanged
    /\ calls' = [calls EXCEPT ![Len(calls)].ended = "raised"]
    /\ colony' = Waiting(colony.registry,
                         update_task_status(colony.tasks, colony.task_id, "failed"))

NextDispatch == InsertTask \/ Route \/ StartWork \/ Complete \/ WorkerFails \/ DispatchFails

SpecDispatch == InitDispatch /\ [][NextDispatch]_vars

\* how far a status is in the life of a task
StatusRank(status) ==
    CASE status = "pending" -> 0
      [] status = "assigned" -> 1
      [] status = "in_progress" -> 2
      [] status \in {"completed", "failed"} -> 3

\* the dispatch calls that created a record and have returned or raised
Ended == {k \in 1..Len(calls) : calls[k].task_id # 0 /\ calls[k].ended # "running"}

TerminalWhenEnded ==
    \A k \in Ended :
        LET status == colony.tasks[calls[k].task_id]
        IN /\ status \in {"completed", "failed"}
           /\ status = "completed" <=> calls[k].worker = "returned"
           /\ status = "completed" <=> calls[k].ended = "returned"

OnlyForward ==
    /\ Len(colony'.tasks) >= Len(colony.tasks)
    /\ \A id \in 1..Len(colony'.tasks) :
          IF id > Len(colony.tasks) THEN colony'.tasks[id] = "pending"
          ELSE /\ StatusRank(colony'.tasks[id]) >= StatusRank(colony.tasks[id])
               /\ colony.tasks[id] = "completed" => colony'.tasks[id] = "completed"

\* C22: the record of a dispatched task starts at 'pending' and only moves forward
\* through 'assigned' and 'in_progress'; once the dispatch has returned or raised the
\* status is 'completed' when the worker returned a result and 'failed' otherwise
\* (no worker registered for the role, or the worker raised), and a 'completed'
\* task is never marked 'failed' afterwards.
C22_TaskStatusLifecycle == []TerminalWhenEnded /\ [][OnlyForward]_vars

\* three dispatches: one completed, one failed for want of a worker, one failed
\* because the worker raised
C22_CompletedNoWorkerAndWorkerRaised ==
    /\ Len(calls) = 3
    /\ colony.pc = "idle"
    /\ \E a, b, c \in Ended :
          /\ colony.tasks[calls[a].task_id] = "completed"
          /\ colony.tasks[calls[b].task_id] = "failed" /\ calls[b].worker = "none"
          /\ colony.tasks[calls[c].task_id] = "failed" /\ calls[c].worker = "raised"

====
